---- MODULE Spec2Model ----
(***************************************************************************)
(* A model of the Tetris game core of YoussefNour/tetris-game: the Board   *)
(* (grid, placement test, locking, line clearing), the piece catalog and   *)
(* rotation resolver, the input commands (Move, Rotate, SoftDrop,          *)
(* HardDrop, Hold) and the GameStateManager.                               *)
(*                                                                         *)
(* Grids are sequences of rows, row 0 of the code being element 1 here;    *)
(* a cell (x, y) of the code is grid[y + 1][x + 1].                        *)
(***************************************************************************)
EXTENDS Integers, Sequences, FiniteSets, TLC

VARIABLES
  state,      \* GameStateManager.state / the GameState value the commands map
  bag,        \* PieceGenerator.bag
  now,        \* the value Date.now() returns
  grid,       \* Board.grid of the Board instance under test
  arg,        \* the piece and position the Board methods under test are called with
  op,         \* the last operation applied and its arguments
  pre,        \* the GameState value (or the Board grid) the last operation was applied to
  ret,        \* the value the last operation returned
  steps,      \* number of operations applied so far
  nlocks      \* number of pieces the manager has written into the grid

vars == <<state, bag, now, grid, arg, op, pre, ret, steps, nlocks>>

(***************************************************************************)
(* GAME_CONFIG                                                             *)
(***************************************************************************)
BOARD_WIDTH == 10
BOARD_HEIGHT == 20
SPAWN_POSITION_X == 3
SPAWN_POSITION_Y == 0
SPAWN_DELAY == 200
SCORE_SINGLE == 100
SCORE_DOUBLE == 300
SCORE_TRIPLE == 500
SCORE_TETRIS == 800
SOFT_DROP_POINTS == 1
HARD_DROP_POINTS == 2
LINES_PER_LEVEL == 10
MAX_LEVEL == 29

\* What getCell returns outside the field (JavaScript's undefined).
Undefined == 0 - 1

TetrominoType == {"I", "O", "T", "S", "Z", "J", "L"}

TETROMINO_COLORS ==
  [I |-> "#00f0f0", O |-> "#f0f000", T |-> "#a000f0", S |-> "#00f000",
   Z |-> "#f00000", J |-> "#0000f0", L |-> "#f0a000"]

(***************************************************************************)
(* Piece catalog: per type, the shapes of its rotation states (state 0     *)
(* first).                                                                 *)
(***************************************************************************)
TETROMINO_SHAPES ==
  [I |-> << << <<0,0,0,0>>, <<1,1,1,1>>, <<0,0,0,0>>, <<0,0,0,0>> >>,
            << <<0,0,1,0>>, <<0,0,1,0>>, <<0,0,1,0>>, <<0,0,1,0>> >>,
            << <<0,0,0,0>>, <<0,0,0,0>>, <<1,1,1,1>>, <<0,0,0,0>> >>,
            << <<0,1,0,0>>, <<0,1,0,0>>, <<0,1,0,0>>, <<0,1,0,0>> >> >>,
   O |-> << << <<1,1>>, <<1,1>> >> >>,
   T |-> << << <<0,1,0>>, <<1,1,1>>, <<0,0,0>> >>,
            << <<0,1,0>>, <<0,1,1>>, <<0,1,0>> >>,
            << <<0,0,0>>, <<1,1,1>>, <<0,1,0>> >>,
            << <<0,1,0>>, <<1,1,0>>, <<0,1,0>> >> >>,
   S |-> << << <<0,1,1>>, <<1,1,0>>, <<0,0,0>> >>,
            << <<0,1,0>>, <<0,1,1>>, <<0,0,1>> >> >>,
   Z |-> << << <<1,1,0>>, <<0,1,1>>, <<0,0,0>> >>,
            << <<0,0,1>>, <<0,1,1>>, <<0,1,0>> >> >>,
   J |-> << << <<1,0,0>>, <<1,1,1>>, <<0,0,0>> >>,
            << <<0,1,1>>, <<0,1,0>>, <<0,1,0>> >>,
            << <<0,0,0>>, <<1,1,1>>, <<0,0,1>> >>,
            << <<0,1,0>>, <<0,1,0>>, <<1,1,0>> >> >>,
   L |-> << << <<0,0,1>>, <<1,1,1>>, <<0,0,0>> >>,
            << <<0,1,0>>, <<0,1,0>>, <<0,1,1>> >>,
            << <<0,0,0>>, <<1,1,1>>, <<1,0,0>> >>,
            << <<1,1,0>>, <<0,1,0>>, <<0,1,0>> >> >>]

\* currentPiece / heldPiece === null
NoPiece == [type |-> "null", shape |-> <<>>, color |-> "", rotationState |-> 0]

\* throw new Error(message), the message ending with the offending value
JsThrow(message, value) == [kind |-> "throw", message |-> message, value |-> value]

\* A call ended by a throw instead of returning a value
Thrown(result) == "kind" \in DOMAIN result /\ result.kind = "throw"

\* Keys that are not in the catalog but that every object literal inherits:
\* the lookup gives a function object of length 1 without indexed elements
InheritedKeys == {"constructor"}

\* createTetromino building a piece from whatever the lookups give
createTetromino_unchecked(type) ==
  IF type \in DOMAIN TETROMINO_SHAPES
    THEN [type |-> type,
          shape |-> TETROMINO_SHAPES[type][1],
          color |-> TETROMINO_COLORS[type],
          rotationState |-> 0]
    ELSE [type |-> type, shape |-> <<>>, color |-> "", rotationState |-> 0]

\* The guard !shapes || !shapes[0] holds for a type the catalog lacks and for
\* an inherited key alike.
createTetromino(type) ==
  IF type \notin DOMAIN TETROMINO_SHAPES
    THEN JsThrow("Invalid tetromino type or missing initial shape for type", type)
    ELSE [type |-> type,
          shape |-> TETROMINO_SHAPES[type][1],
          color |-> TETROMINO_COLORS[type],
          rotationState |-> 0]

\* The piece of a type in one of its catalog rotation states, as a chain of
\* rotateTetromino calls from createTetromino produces it.
CatalogPiece(type, r) ==
  [type |-> type,
   shape |-> TETROMINO_SHAPES[type][r + 1],
   color |-> TETROMINO_COLORS[type],
   rotationState |-> r]

\* rotateTetromino turning clockwise whatever the direction
rotateTetromino_directionIgnored(piece, direction) ==
  IF piece.type = "O" THEN piece
  ELSE
    LET shapes == TETROMINO_SHAPES[piece.type]
        numRotations == Len(shapes)
        newRotationState == (piece.rotationState + 1) % numRotations
    IN [piece EXCEPT !.shape = shapes[newRotationState + 1],
                     !.rotationState = newRotationState]

\* rotateTetromino never reaching the last catalog state
rotateTetromino_shortCycle(piece, direction) ==
  IF piece.type = "O" THEN piece
  ELSE
    LET shapes == TETROMINO_SHAPES[piece.type]
        numRotations == Len(shapes) - 1
        newRotationState ==
          IF direction = "CW"
            THEN (piece.rotationState + 1) % numRotations
            ELSE (piece.rotationState - 1 + numRotations) % numRotations
    IN [piece EXCEPT !.shape = shapes[newRotationState + 1],
                     !.rotationState = newRotationState]

\* The % of the source: the remainder has the sign of the dividend
jsRemainder(a, n) == IF a >= 0 THEN a % n ELSE 0 - ((0 - a) % n)

rotateTetromino(piece, direction) ==
  IF piece.type = "O" THEN piece
  ELSE IF piece.type \in InheritedKeys
    THEN JsThrow("Invalid rotation state", 0)
  ELSE IF piece.type \notin DOMAIN TETROMINO_SHAPES
    THEN JsThrow("Invalid tetromino type", piece.type)
  ELSE
    LET shapes == TETROMINO_SHAPES[piece.type]
        numRotations == Len(shapes)
        newRotationState ==
          IF direction = "CW"
            THEN jsRemainder(piece.rotationState + 1, numRotations)
            ELSE jsRemainder(piece.rotationState - 1 + numRotations, numRotations)
    IN  IF newRotationState < 0 \/ newRotationState >= numRotations
          THEN JsThrow("Invalid rotation state", newRotationState)
          ELSE [piece EXCEPT !.shape = shapes[newRotationState + 1],
                             !.rotationState = newRotationState]

JLSTZ_KICKS ==
  [k01 |-> << <<0,0>>, <<-1,0>>, <<-1,1>>,  <<0,-2>>, <<-1,-2>> >>,
   k10 |-> << <<0,0>>, <<1,0>>,  <<1,-1>>,  <<0,2>>,  <<1,2>> >>,
   k12 |-> << <<0,0>>, <<1,0>>,  <<1,-1>>,  <<0,2>>,  <<1,2>> >>,
   k21 |-> << <<0,0>>, <<-1,0>>, <<-1,1>>,  <<0,-2>>, <<-1,-2>> >>,
   k23 |-> << <<0,0>>, <<1,0>>,  <<1,1>>,   <<0,-2>>, <<1,-2>> >>,
   k32 |-> << <<0,0>>, <<-1,0>>, <<-1,-1>>, <<0,2>>,  <<-1,2>> >>,
   k30 |-> << <<0,0>>, <<-1,0>>, <<-1,-1>>, <<0,2>>,  <<-1,2>> >>,
   k03 |-> << <<0,0>>, <<1,0>>,  <<1,1>>,   <<0,-2>>, <<1,-2>> >>]

I_KICKS ==
  [k01 |-> << <<0,0>>, <<-2,0>>, <<1,0>>,  <<-2,-1>>, <<1,2>> >>,
   k10 |-> << <<0,0>>, <<2,0>>,  <<-1,0>>, <<2,1>>,   <<-1,-2>> >>,
   k12 |-> << <<0,0>>, <<-1,0>>, <<2,0>>,  <<-1,2>>,  <<2,-1>> >>,
   k21 |-> << <<0,0>>, <<1,0>>,  <<-2,0>>, <<1,-2>>,  <<-2,1>> >>,
   k23 |-> << <<0,0>>, <<2,0>>,  <<-1,0>>, <<2,1>>,   <<-1,-2>> >>,
   k32 |-> << <<0,0>>, <<-2,0>>, <<1,0>>,  <<-2,-1>>, <<1,2>> >>,
   k30 |-> << <<0,0>>, <<1,0>>,  <<-2,0>>, <<1,-2>>,  <<-2,1>> >>,
   k03 |-> << <<0,0>>, <<-1,0>>, <<2,0>>,  <<-1,2>>,  <<2,-1>> >>]

\* `${fromRotation}-${toRotation}`, with "k" for the "-" so that it names a field
kickKey(fromRotation, toRotation) ==
  "k" \o ToString(fromRotation) \o ToString(toRotation)

\* getWallKickOffsets without the || [[0, 0]] fallback of the table lookups
getWallKickOffsets_noFallback(piece, fromRotation, toRotation) ==
  LET key == kickKey(fromRotation, toRotation) IN
  IF piece.type = "I"
    THEN (IF key \in DOMAIN I_KICKS THEN I_KICKS[key] ELSE << >>)
  ELSE IF piece.type = "O"
    THEN << <<0,0>> >>
  ELSE (IF key \in DOMAIN JLSTZ_KICKS THEN JLSTZ_KICKS[key] ELSE << >>)

getWallKickOffsets(piece, fromRotation, toRotation) ==
  LET key == kickKey(fromRotation, toRotation) IN
  IF piece.type = "I"
    THEN (IF key \in DOMAIN I_KICKS THEN I_KICKS[key] ELSE << <<0,0>> >>)
  ELSE IF piece.type = "O"
    THEN << <<0,0>> >>
  ELSE (IF key \in DOMAIN JLSTZ_KICKS THEN JLSTZ_KICKS[key] ELSE << <<0,0>> >>)

(***************************************************************************)
(* Board                                                                   *)
(***************************************************************************)
createEmptyGrid == [y \in 1..BOARD_HEIGHT |-> [x \in 1..BOARD_WIDTH |-> 0]]

getCell(g, x, y) ==
  IF x < 0 \/ x >= BOARD_WIDTH \/ y < 0 \/ y >= BOARD_HEIGHT
    THEN Undefined
    ELSE g[y + 1][x + 1]

\* setCell checking the row only: row[x] = value with x >= row.length
\* lengthens the row, and with x < 0 writes no cell.
setCell_rowCheckOnly(g, x, y, value) ==
  IF y < 0 \/ y >= BOARD_HEIGHT \/ x < 0
    THEN g
    ELSE [g EXCEPT ![y + 1] =
            [i \in 1..(IF x + 1 > Len(@) THEN x + 1 ELSE Len(@)) |->
               IF i = x + 1 THEN value
               ELSE IF i <= Len(@) THEN @[i] ELSE Undefined]]

setCell(g, x, y, value) ==
  IF x < 0 \/ x >= BOARD_WIDTH \/ y < 0 \/ y >= BOARD_HEIGHT
    THEN g
    ELSE [g EXCEPT ![y + 1][x + 1] = value]

\* The bounds check without its floor test.
placeOutOfBounds_noFloor(boardX, boardY) ==
  boardX < 0 \/ boardX >= BOARD_WIDTH

\* The bounds check with its floor three rows below the field.
placeOutOfBounds_deepFloor(boardX, boardY) ==
  boardX < 0 \/ boardX >= BOARD_WIDTH \/ boardY >= BOARD_HEIGHT + 3

\* canPlacePiece's bounds check on one occupied sub-cell
placeOutOfBounds(boardX, boardY) ==
  boardX < 0 \/ boardX >= BOARD_WIDTH \/ boardY >= BOARD_HEIGHT

\* The occupancy check finding every cell free.
placeBlocked_never(g, boardX, boardY) == FALSE

\* canPlacePiece's occupancy check on one occupied sub-cell
placeBlocked(g, boardX, boardY) ==
  IF boardY >= 0
    THEN LET cell == getCell(g, boardX, boardY)
         IN  cell # 0 /\ cell # Undefined
    ELSE FALSE

\* The two nested loops of canPlacePiece from (row, col) on, in row-major
\* order, returning false at the first occupied sub-cell that fails.
RECURSIVE canPlaceScan(_, _, _, _, _)
canPlaceScan(g, shape, position, row, col) ==
  IF row >= Len(shape) THEN TRUE
  ELSE IF col >= Len(shape[row + 1])
    THEN canPlaceScan(g, shape, position, row + 1, 0)
  ELSE IF shape[row + 1][col + 1] # 0
    THEN LET boardX == position.x + col
             boardY == position.y + row
         IN  IF placeOutOfBounds(boardX, boardY) THEN FALSE
             ELSE IF placeBlocked(g, boardX, boardY) THEN FALSE
             ELSE canPlaceScan(g, shape, position, row, col + 1)
  ELSE canPlaceScan(g, shape, position, row, col + 1)

canPlacePiece(g, piece, position) ==
  canPlaceScan(g, piece.shape, position, 0, 0)

\* lockPiece's test of the row of an occupied sub-cell
lockRowInField(boardY) == boardY >= 0 /\ boardY < BOARD_HEIGHT

\* The two nested loops of lockPiece from (row, col) on.
RECURSIVE lockScan(_, _, _, _, _)
lockScan(g, shape, position, row, col) ==
  IF row >= Len(shape) THEN g
  ELSE IF col >= Len(shape[row + 1])
    THEN lockScan(g, shape, position, row + 1, 0)
  ELSE IF shape[row + 1][col + 1] # 0
    THEN LET boardX == position.x + col
             boardY == position.y + row
         IN  IF lockRowInField(boardY)
               THEN lockScan(setCell(g, boardX, boardY, shape[row + 1][col + 1]),
                             shape, position, row, col + 1)
               ELSE lockScan(g, shape, position, row, col + 1)
  ELSE lockScan(g, shape, position, row, col + 1)

\* The locking loops started at the second shape row.
lockPiece_fromRowOne(g, piece, position) == lockScan(g, piece.shape, position, 1, 0)

lockPiece(g, piece, position) == lockScan(g, piece.shape, position, 0, 0)

\* clearLines' inner loop: row y has no cell for which getCell(x, y) === 0
RECURSIVE isCompleteFrom(_, _, _)
isCompleteFrom(g, y, x) ==
  IF x >= BOARD_WIDTH THEN TRUE
  ELSE IF getCell(g, x, y) = 0 THEN FALSE
  ELSE isCompleteFrom(g, y, x + 1)

\* The completeness loop started at the second column.
isComplete_fromColumnOne(g, y) == isCompleteFrom(g, y, 1)

isComplete(g, y) == isCompleteFrom(g, y, 0)

\* clearLines' detection loop: the completed rows from y on, top to bottom
RECURSIVE detectFrom(_, _)
detectFrom(g, y) ==
  IF y >= BOARD_HEIGHT THEN <<>>
  ELSE IF isComplete(g, y) THEN <<y>> \o detectFrom(g, y + 1)
  ELSE detectFrom(g, y + 1)

linesToClear(g) == detectFrom(g, 0)

\* The splice taking out the row above the one asked for.
splice1_rowAbove(g, lineY) ==
  [i \in 1..(Len(g) - 1) |-> IF i < lineY THEN g[i] ELSE g[i + 1]]

\* Array.prototype.splice(lineY, 1): the rows without the one at index lineY
splice1(g, lineY) ==
  [i \in 1..(Len(g) - 1) |-> IF i <= lineY THEN g[i] ELSE g[i + 1]]

\* Array.prototype.unshift(row)
unshift(g, row) == <<row>> \o g

\* One iteration of clearLines' removal loop
removeLine(g, lineY) ==
  unshift(splice1(g, lineY), [x \in 1..BOARD_WIDTH |-> 0])

\* clearLines' removal loop over the detected rows, in the order given
RECURSIVE removeLoop(_, _, _)
removeLoop(g, lines, linesCleared) ==
  IF lines = <<>> THEN [grid |-> g, linesCleared |-> linesCleared]
  ELSE removeLoop(removeLine(g, Head(lines)), Tail(lines), linesCleared + 1)

Reverse(s) == [i \in 1..Len(s) |-> s[Len(s) + 1 - i]]

\* The removal loop run bottom row first.
clearLines_bottomFirst(g) == removeLoop(g, Reverse(linesToClear(g)), 0)

\* clearLines: the grid afterwards and the number it returns
clearLines(g) == removeLoop(g, linesToClear(g), 0)

isEmpty(g) ==
  \A y \in 0..(BOARD_HEIGHT - 1) : \A x \in 0..(BOARD_WIDTH - 1) : getCell(g, x, y) = 0

(***************************************************************************)
(* Commands: execute(gameState), with t the value Date.now() returns.      *)
(* A GameState is a record; lockRequested absent is FALSE and              *)
(* lastSpawnTime absent is 0.                                              *)
(***************************************************************************)
\* The gate closing one millisecond early.
isCommandAllowed_oneShort(gameState, t) ==
  IF gameState.lastSpawnTime # 0 /\ SPAWN_DELAY # 0
    THEN ~(t - gameState.lastSpawnTime < SPAWN_DELAY - 1)
    ELSE TRUE

isCommandAllowed(gameState, t) ==
  IF gameState.lastSpawnTime # 0 /\ SPAWN_DELAY # 0
    THEN ~(t - gameState.lastSpawnTime < SPAWN_DELAY)
    ELSE TRUE

\* The guard every command starts with: true when the command returns its input.
commandRejected(gameState, t) ==
  \/ gameState.currentPiece = NoPiece
  \/ gameState.gameStatus # "playing"
  \/ ~isCommandAllowed(gameState, t)

\* Move without the placement test.
MoveCommand_unchecked(dx, dy, gameState, t) ==
  IF commandRejected(gameState, t) THEN gameState
  ELSE [gameState EXCEPT !.currentPosition =
          [x |-> gameState.currentPosition.x + dx, y |-> gameState.currentPosition.y + dy]]

MoveCommand(dx, dy, gameState, t) ==
  IF commandRejected(gameState, t) THEN gameState
  ELSE
    LET newPosition == [x |-> gameState.currentPosition.x + dx,
                        y |-> gameState.currentPosition.y + dy]
    IN  IF canPlacePiece(gameState.board, gameState.currentPiece, newPosition)
          THEN [gameState EXCEPT !.currentPosition = newPosition]
          ELSE gameState

\* The test position of a kick with the vertical offset added instead of subtracted.
kickPosition_yAdded(position, kick) ==
  [x |-> position.x + kick[1], y |-> position.y + kick[2]]

\* The position RotateCommand tests for one kick (SRS offsets count up as positive)
kickPosition(position, kick) ==
  [x |-> position.x + kick[1], y |-> position.y - kick[2]]

\* The loop taking the first kick without the placement test.
tryKicks_untested(gameState, rotatedPiece, kicks, i) ==
  IF i > Len(kicks) THEN gameState
  ELSE [gameState EXCEPT !.currentPiece = rotatedPiece,
                         !.currentPosition =
                           kickPosition(gameState.currentPosition, kicks[i])]

\* RotateCommand's loop over the kicks from index i on
RECURSIVE tryKicks(_, _, _, _)
tryKicks(gameState, rotatedPiece, kicks, i) ==
  IF i > Len(kicks) THEN gameState
  ELSE
    LET testPosition == kickPosition(gameState.currentPosition, kicks[i])
    IN  IF canPlacePiece(gameState.board, rotatedPiece, testPosition)
          THEN [gameState EXCEPT !.currentPiece = rotatedPiece,
                                 !.currentPosition = testPosition]
          ELSE tryKicks(gameState, rotatedPiece, kicks, i + 1)

RotateCommand(direction, gameState, t) ==
  IF commandRejected(gameState, t) THEN gameState
  ELSE
    LET rotatedPiece == rotateTetromino(gameState.currentPiece, direction)
        kicks == getWallKickOffsets(gameState.currentPiece,
                                    gameState.currentPiece.rotationState,
                                    rotatedPiece.rotationState)
    IN  tryKicks(gameState, rotatedPiece, kicks, 1)

\* SoftDropCommand awarding its point before the placement test
SoftDropCommand_pointWhenBlocked(gameState, t) ==
  IF commandRejected(gameState, t) THEN gameState
  ELSE
    LET newPosition == [x |-> gameState.currentPosition.x,
                        y |-> gameState.currentPosition.y + 1]
        scored == [gameState EXCEPT !.score = gameState.score + SOFT_DROP_POINTS]
    IN  IF canPlacePiece(gameState.board, gameState.currentPiece, newPosition)
          THEN [scored EXCEPT !.currentPosition = newPosition]
          ELSE scored

SoftDropCommand(gameState, t) ==
  IF commandRejected(gameState, t) THEN gameState
  ELSE
    LET newPosition == [x |-> gameState.currentPosition.x,
                        y |-> gameState.currentPosition.y + 1]
    IN  IF canPlacePiece(gameState.board, gameState.currentPiece, newPosition)
          THEN [gameState EXCEPT !.currentPosition = newPosition,
                                 !.score = gameState.score + SOFT_DROP_POINTS]
          ELSE gameState

\* The while loop reporting the row reached as the distance.
RECURSIVE dropScan_rowAsDistance(_, _, _)
dropScan_rowAsDistance(gameState, testY, dropDistance) ==
  IF canPlacePiece(gameState.board, gameState.currentPiece,
                   [x |-> gameState.currentPosition.x, y |-> testY + 1])
    THEN dropScan_rowAsDistance(gameState, testY + 1, dropDistance + 1)
    ELSE [testY |-> testY, dropDistance |-> testY]

\* HardDropCommand's while loop: the final testY and dropDistance
RECURSIVE dropScan(_, _, _)
dropScan(gameState, testY, dropDistance) ==
  IF canPlacePiece(gameState.board, gameState.currentPiece,
                   [x |-> gameState.currentPosition.x, y |-> testY + 1])
    THEN dropScan(gameState, testY + 1, dropDistance + 1)
    ELSE [testY |-> testY, dropDistance |-> dropDistance]

\* HardDrop that stops one row short of the lowest row.
HardDropCommand_oneShort(gameState, t) ==
  IF commandRejected(gameState, t) THEN gameState
  ELSE
    LET d == dropScan(gameState, gameState.currentPosition.y, 0)
        k == IF d.dropDistance > 0 THEN d.dropDistance - 1 ELSE 0
    IN  [gameState EXCEPT
           !.currentPosition = [x |-> gameState.currentPosition.x,
                                y |-> gameState.currentPosition.y + k],
           !.score = gameState.score + k * HARD_DROP_POINTS,
           !.lockRequested = TRUE]

HardDropCommand(gameState, t) ==
  IF commandRejected(gameState, t) THEN gameState
  ELSE
    LET d == dropScan(gameState, gameState.currentPosition.y, 0)
    IN  [gameState EXCEPT
           !.currentPosition = [x |-> gameState.currentPosition.x, y |-> d.testY],
           !.score = gameState.score + d.dropDistance * HARD_DROP_POINTS,
           !.lockRequested = TRUE]

HoldCommand(gameState, t) ==
  IF \/ gameState.currentPiece = NoPiece
     \/ ~gameState.canHold
     \/ gameState.gameStatus # "playing"
     \/ ~isCommandAllowed(gameState, t)
    THEN gameState
    ELSE gameState

(***************************************************************************)
(* Values returned to JavaScript callers                                   *)
(***************************************************************************)
JsUndefined == [kind |-> "undefined", val |-> 0]
JsNumber(n) == [kind |-> "number", val |-> n]
JsBoolean(b) == [kind |-> "boolean", val |-> b]
JsArray(a) == [kind |-> "array", val |-> a]

\* result.<field> as JavaScript evaluates it: undefined unless result is an
\* object that has the field.
JsField(result, field) ==
  IF result.kind = "object" /\ field \in DOMAIN result.val
    THEN result.val[field]
    ELSE Undefined

(***************************************************************************)
(* SpecBoard: the Board class.  A Board is built cell by cell with setCell *)
(* (as the Board tests do, row by row) and then its methods are called     *)
(* with one piece and one position.                                        *)
(***************************************************************************)
MaxBoardOps == 2
StackRows == 3

\* for (x = 0; x < n; x++) board.setCell(x, y, value), the loop of the tests
RECURSIVE fillRow(_, _, _, _)
fillRow(g, y, n, value) ==
  IF n = 0 THEN g ELSE fillRow(setCell(g, n - 1, y, value), y, n - 1, value)

\* Ways a row is filled: not at all, completely, all but the last column,
\* all but the first column, eight cells of another colour, completely with
\* the ghost value.
RowFills == {"empty", "full", "allButOne", "allButFirst", "eight", "ghost"}

applyFill(g, y, fill) ==
  CASE fill = "empty"     -> g
    [] fill = "full"      -> fillRow(g, y, BOARD_WIDTH, 1)
    [] fill = "allButOne" -> fillRow(g, y, BOARD_WIDTH - 1, 2)
    [] fill = "allButFirst" -> setCell(fillRow(g, y, BOARD_WIDTH, 4), 0, y, 0)
    [] fill = "eight"     -> fillRow(g, y, BOARD_WIDTH - 2, 3)
    [] fill = "ghost"     -> fillRow(g, y, BOARD_WIDTH, 8)

\* fills[i] is applied to row BOARD_HEIGHT - i
RECURSIVE fillStack(_, _, _)
fillStack(g, fills, i) ==
  IF i > Len(fills) THEN g
  ELSE fillStack(applyFill(g, BOARD_HEIGHT - i, fills[i]), fills, i + 1)

\* Boards with the bottom StackRows rows and the top row filled in every way.
StackBoards ==
  { applyFill(fillStack(createEmptyGrid, fills, 1), 0, top) :
      fills \in [1..StackRows -> RowFills], top \in {"empty", "full", "eight"} }

\* Boards for the placement tests: empty, a floor with a gap, locked cells
\* under the spawn position, a locked column at the right wall.
PlaceBoards ==
  { createEmptyGrid,
    fillStack(createEmptyGrid, <<"allButOne", "eight">>, 1),
    setCell(setCell(createEmptyGrid, 3, 1, 1), 5, 0, 4),
    setCell(setCell(setCell(createEmptyGrid, 9, 19, 6), 9, 18, 6), 0, 17, 7) }

CatalogPieces ==
  { CatalogPiece(tr[1], tr[2]) :
      tr \in { q \in TetrominoType \X (0..3) : q[2] < Len(TETROMINO_SHAPES[q[1]]) } }

PlaceXs == (0 - 3)..BOARD_WIDTH
PlaceYs == ((0 - 2)..0) \cup ((BOARD_HEIGHT - 3)..BOARD_HEIGHT)

\* The pieces and positions the methods are called with on the stack boards:
\* an O piece over columns 8 and 9, an upright I piece in column 9.
StackArgs ==
  { [piece |-> CatalogPiece("O", 0), position |-> [x |-> 8, y |-> 18]],
    [piece |-> CatalogPiece("I", 1), position |-> [x |-> 7, y |-> 16]] }

NoOp == [name |-> "new"]
NoState == [gameStatus |-> "none"]

BoardIdle ==
  /\ state = NoState /\ bag = <<>> /\ now = 0 /\ nlocks = 0

InitBoard ==
  /\ BoardIdle
  /\ \/ grid \in StackBoards /\ arg \in StackArgs
     \/ /\ grid \in PlaceBoards
        /\ arg \in [piece : CatalogPieces, position : [x : PlaceXs, y : PlaceYs]]
  /\ op = NoOp
  /\ pre = grid
  /\ ret = JsUndefined
  /\ steps = 0

BoardFrame == UNCHANGED <<state, bag, now, nlocks, arg>>

\* board.canPlacePiece(piece, position)
BCanPlacePiece ==
  /\ steps < MaxBoardOps
  /\ op' = [name |-> "canPlacePiece"]
  /\ pre' = grid
  /\ ret' = JsBoolean(canPlacePiece(grid, arg.piece, arg.position))
  /\ grid' = grid
  /\ steps' = steps + 1
  /\ BoardFrame

\* board.lockPiece(piece, position)
BLockPiece ==
  /\ steps < MaxBoardOps
  /\ op' = [name |-> "lockPiece"]
  /\ pre' = grid
  /\ grid' = lockPiece(grid, arg.piece, arg.position)
  /\ ret' = JsUndefined
  /\ steps' = steps + 1
  /\ BoardFrame

\* board.clearLines()
BClearLines ==
  /\ steps < MaxBoardOps
  /\ op' = [name |-> "clearLines"]
  /\ pre' = grid
  /\ LET r == clearLines(grid)
     IN  grid' = r.grid /\ ret' = JsNumber(r.linesCleared)
  /\ steps' = steps + 1
  /\ BoardFrame

\* board.setCell(position.x, position.y, value)
BSetCell ==
  /\ steps < MaxBoardOps
  /\ \E value \in {1, 8} :
       /\ op' = [name |-> "setCell"]
       /\ grid' = setCell(grid, arg.position.x, arg.position.y, value)
  /\ pre' = grid
  /\ ret' = JsUndefined
  /\ steps' = steps + 1
  /\ BoardFrame

\* board.reset()
BReset ==
  /\ steps < MaxBoardOps
  /\ op' = [name |-> "reset"]
  /\ pre' = grid
  /\ grid' = createEmptyGrid
  /\ ret' = JsUndefined
  /\ steps' = steps + 1
  /\ BoardFrame

NextBoard ==
  \/ BCanPlacePiece
  \/ BLockPiece
  \/ BClearLines
  \/ BSetCell
  \/ BReset

SpecBoard == InitBoard /\ [][NextBoard]_vars

(***************************************************************************)
(* Statements about the Board, checked under SpecBoard                     *)
(***************************************************************************)
FieldXs == 0..(BOARD_WIDTH - 1)
FieldYs == 0..(BOARD_HEIGHT - 1)

\* The occupied sub-cells <<col, row>> of a shape
OccupiedSubCells(shape) ==
  { cr \in (0..3) \X (0..3) :
      /\ cr[2] < Len(shape)
      /\ cr[1] < Len(shape[cr[2] + 1])
      /\ shape[cr[2] + 1][cr[1] + 1] # 0 }

\* The absolute coordinates <<x, y>> of the occupied sub-cells
AbsoluteCells(piece, position) ==
  { <<position.x + cr[1], position.y + cr[2]>> : cr \in OccupiedSubCells(piece.shape) }

Locked(g, x, y) == g[y + 1][x + 1] # 0

Placeable(g, piece, position) ==
  \A c \in AbsoluteCells(piece, position) :
    /\ 0 <= c[1] /\ c[1] < BOARD_WIDTH
    /\ c[2] < BOARD_HEIGHT
    /\ (c[2] < 0 \/ ~Locked(g, c[1], c[2]))

RowFull(g, y) == \A x \in FieldXs : Locked(g, x, y)
FullRows(g) == { y \in FieldYs : RowFull(g, y) }
LockedCount(g) == Cardinality({ c \in FieldXs \X FieldYs : Locked(g, c[1], c[2]) })
EmptyRow == [x \in 1..BOARD_WIDTH |-> 0]
WellFormed(g) == Len(g) = BOARD_HEIGHT /\ \A i \in 1..Len(g) : Len(g[i]) = BOARD_WIDTH

\* C2: canPlacePiece returns true exactly when every occupied sub-cell lies in
\* a column of the field, above the floor, and either above the field or on
\* an empty cell.
C2_CanPlaceIffAllSubCellsPass ==
  op.name = "canPlacePiece" =>
    ret = JsBoolean(Placeable(pre, arg.piece, arg.position))

\* C2 witness: a placement accepted on a board with locked cells although a
\* sub-cell of the piece lies above the field.
C2_Witness ==
  /\ op.name = "canPlacePiece"
  /\ ret = JsBoolean(TRUE)
  /\ LockedCount(pre) > 0
  /\ \E c \in AbsoluteCells(arg.piece, arg.position) : c[2] < 0

\* C9: lockPiece makes the cells under the piece's occupied sub-cells that lie
\* in the field non-empty and leaves every other cell as it was.
C9_LockWritesExactlyThePieceCells ==
  op.name = "lockPiece" =>
    LET cells == AbsoluteCells(arg.piece, arg.position)
        rows == { c[2] : c \in cells }
    IN  /\ WellFormed(grid)
        /\ \A c \in cells :
             (c[1] \in FieldXs /\ c[2] \in FieldYs) => Locked(grid, c[1], c[2])
        /\ \A y \in FieldYs :
             IF y \in rows
               THEN \A x \in FieldXs :
                      <<x, y>> \notin cells => grid[y + 1][x + 1] = pre[y + 1][x + 1]
               ELSE grid[y + 1] = pre[y + 1]

\* C9 witness: a piece locked with sub-cells above the field and sub-cells
\* inside it.
C9_Witness ==
  /\ op.name = "lockPiece"
  /\ \E c \in AbsoluteCells(arg.piece, arg.position) : c[2] < 0
  /\ \E c \in AbsoluteCells(arg.piece, arg.position) :
       /\ c[1] \in FieldXs /\ c[2] \in FieldYs
       /\ ~Locked(pre, c[1], c[2]) /\ Locked(grid, c[1], c[2])

\* The rows of g that are not full, top to bottom
RECURSIVE KeptRows(_, _)
KeptRows(g, i) ==
  IF i > Len(g) THEN <<>>
  ELSE IF RowFull(g, i - 1) THEN KeptRows(g, i + 1)
  ELSE <<g[i]>> \o KeptRows(g, i + 1)

\* C6: clearLines removes exactly the rows that were full: afterwards the grid
\* is one empty row per removed row followed by the other rows in their
\* order, and the locked cells are fewer by width times the rows removed.
C6_ClearRemovesExactlyFullRows ==
  op.name = "clearLines" =>
    LET k == Cardinality(FullRows(pre)) IN
    /\ grid = [i \in 1..k |-> EmptyRow] \o KeptRows(pre, 1)
    /\ LockedCount(grid) = LockedCount(pre) - BOARD_WIDTH * k

\* C6 witness: two full rows that are not adjacent are cleared, a row with
\* width - 1 locked cells between them is kept.
C6_Witness ==
  /\ op.name = "clearLines"
  /\ \E y \in FieldYs :
       /\ y >= 1 /\ y + 1 \in FieldYs
       /\ RowFull(pre, y - 1) /\ RowFull(pre, y + 1)
       /\ Cardinality({ x \in FieldXs : Locked(pre, x, y) }) = BOARD_WIDTH - 1
       /\ Cardinality({ x \in FieldXs : Locked(grid, x, y + 1) }) = BOARD_WIDTH - 1

\* C7: after clearLines no row is full, and the board is empty if every
\* occupied row was full.
C7_NoFullRowAfterClear ==
  op.name = "clearLines" =>
    /\ FullRows(grid) = {}
    /\ (\A y \in FieldYs : (\E x \in FieldXs : Locked(pre, x, y)) => RowFull(pre, y))
         => isEmpty(grid)

\* C7 witness: rows 18 and 19 full on an otherwise empty board, cleared.
C7_Witness ==
  /\ op.name = "clearLines"
  /\ FullRows(pre) = {BOARD_HEIGHT - 2, BOARD_HEIGHT - 1}
  /\ LockedCount(pre) = 2 * BOARD_WIDTH
  /\ isEmpty(grid)

\* The full rows of g as a list, top to bottom
RECURSIVE FullRowList(_, _)
FullRowList(g, y) ==
  IF y >= BOARD_HEIGHT THEN <<>>
  ELSE IF RowFull(g, y) THEN <<y>> \o FullRowList(g, y + 1)
  ELSE FullRowList(g, y + 1)

\* C8: the value clearLines returns has the number of cleared rows as
\* clearedLines and the list of their indices, ascending, as clearedRows.
C8_ClearReportsCountAndRows ==
  op.name = "clearLines" =>
    /\ JsField(ret, "clearedLines") = Cardinality(FullRows(pre))
    /\ JsField(ret, "clearedRows") = FullRowList(pre, 0)

(***************************************************************************)
(* SpecCmd: the commands as functions of a GameState and the clock.  The   *)
(* GameState is drawn from playing states with a placeable piece on a few  *)
(* boards, and from states at the spawn position in every status, with and *)
(* without a recorded spawn time.                                          *)
(***************************************************************************)
MaxCmds == 1

GameStatus == {"idle", "playing", "paused", "gameOver"}

\* A board with columns of different heights and a one-cell overhang
JaggedBoard ==
  setCell(setCell(fillRow(fillRow(createEmptyGrid, BOARD_HEIGHT - 1, 6, 1),
                          BOARD_HEIGHT - 2, 3, 2), 8, BOARD_HEIGHT - 3, 5),
          5, BOARD_HEIGHT - 4, 7)

CmdBoards == PlaceBoards \cup {JaggedBoard}

CmdXs == (0 - 2)..(BOARD_WIDTH - 1)
CmdYs == ((0 - 1)..1) \cup ((BOARD_HEIGHT - 6)..(BOARD_HEIGHT - 2))

\* The arguments MoveCommand is constructed with
MoveDeltas == { <<0 - 1, 0>>, <<1, 0>>, <<0, 1>>, <<1, 0 - 1>> }
RotationDirection == {"CW", "CCW"}

\* Clock readings around the end of the spawn delay of a piece spawned at SpawnedAt
SpawnedAt == 5 * SPAWN_DELAY
GateTimes == { SpawnedAt + d : d \in {0, SPAWN_DELAY - 1, SPAWN_DELAY, SPAWN_DELAY + 1} }

SpawnPosition == [x |-> SPAWN_POSITION_X, y |-> SPAWN_POSITION_Y]

PlayingState(b, piece, position) ==
  [board |-> b, currentPiece |-> piece, currentPosition |-> position,
   nextPiece |-> createTetromino("I"), heldPiece |-> NoPiece, canHold |-> TRUE,
   score |-> 0, level |-> 1, lines |-> 0, gameStatus |-> "playing",
   lockRequested |-> FALSE, lastSpawnTime |-> 0]

CmdIdle ==
  /\ bag = <<>> /\ nlocks = 0 /\ grid = <<>> /\ arg = <<>> /\ ret = JsUndefined

InitCmd ==
  /\ CmdIdle
  /\ \/ /\ \E b \in CmdBoards, piece \in CatalogPieces, x \in CmdXs, y \in CmdYs :
             /\ canPlacePiece(b, piece, [x |-> x, y |-> y])
             /\ state = PlayingState(b, piece, [x |-> x, y |-> y])
        /\ now = SpawnedAt
     \/ /\ \E piece \in {NoPiece, createTetromino("O"), createTetromino("T")},
             status \in GameStatus, spawned \in {0, SpawnedAt},
             held \in {NoPiece, createTetromino("L")}, hold \in BOOLEAN :
             /\ status = "idle" => piece = NoPiece
             /\ state = [PlayingState(createEmptyGrid, piece, SpawnPosition)
                          EXCEPT !.gameStatus = status, !.lastSpawnTime = spawned,
                                 !.heldPiece = held, !.canHold = hold]
        /\ now \in GateTimes
  /\ op = NoOp
  /\ pre = state
  /\ steps = 0

CmdFrame == UNCHANGED <<bag, now, grid, arg, ret, nlocks>>

\* new MoveCommand(dx, dy).execute(state)
CMove ==
  /\ steps < MaxCmds
  /\ \E d \in MoveDeltas :
       /\ op' = [name |-> "Move", dx |-> d[1], dy |-> d[2]]
       /\ state' = MoveCommand(d[1], d[2], state, now)
  /\ pre' = state
  /\ steps' = steps + 1
  /\ CmdFrame

\* new RotateCommand(direction).execute(state)
CRotate ==
  /\ steps < MaxCmds
  /\ \E direction \in RotationDirection :
       /\ op' = [name |-> "Rotate", direction |-> direction]
       /\ state' = RotateCommand(direction, state, now)
  /\ pre' = state
  /\ steps' = steps + 1
  /\ CmdFrame

\* new SoftDropCommand().execute(state)
CSoftDrop ==
  /\ steps < MaxCmds
  /\ op' = [name |-> "SoftDrop"]
  /\ state' = SoftDropCommand(state, now)
  /\ pre' = state
  /\ steps' = steps + 1
  /\ CmdFrame

\* new HardDropCommand().execute(state)
CHardDrop ==
  /\ steps < MaxCmds
  /\ op' = [name |-> "HardDrop"]
  /\ state' = HardDropCommand(state, now)
  /\ pre' = state
  /\ steps' = steps + 1
  /\ CmdFrame

\* new HoldCommand().execute(state)
CHold ==
  /\ steps < MaxCmds
  /\ op' = [name |-> "Hold"]
  /\ state' = HoldCommand(state, now)
  /\ pre' = state
  /\ steps' = steps + 1
  /\ CmdFrame

NextCmd ==
  \/ CMove
  \/ CRotate
  \/ CSoftDrop
  \/ CHardDrop
  \/ CHold

SpecCmd == InitCmd /\ [][NextCmd]_vars

(***************************************************************************)
(* Statements about the commands, checked under SpecCmd                    *)
(***************************************************************************)
CommandNames == {"Move", "Rotate", "SoftDrop", "HardDrop", "Hold"}

\* No spawn time is recorded, or SPAWN_DELAY has elapsed since it.
SpawnDelayElapsed(gameState, t) ==
  gameState.lastSpawnTime = 0 \/ t - gameState.lastSpawnTime >= SPAWN_DELAY

\* What MoveCommand is to return on the state it was applied to
MoveOutcome ==
  LET target == [x |-> pre.currentPosition.x + op.dx, y |-> pre.currentPosition.y + op.dy]
  IN  IF Placeable(pre.board, pre.currentPiece, target)
        THEN state = [pre EXCEPT !.currentPosition = target]
        ELSE state = pre

\* C1 as stated: on every playing state with an active piece MoveCommand moves
\* the piece by (dx, dy) exactly when it is placeable there, changes nothing
\* else, and otherwise returns the state unchanged.
C1_MoveOnPlayingState ==
  (op.name = "Move" /\ pre.gameStatus = "playing" /\ pre.currentPiece # NoPiece)
    => MoveOutcome

\* C1 amended: the same on playing states with an active piece whose spawn
\* delay has elapsed.
C1_MoveAfterSpawnDelay ==
  (/\ op.name = "Move" /\ pre.gameStatus = "playing" /\ pre.currentPiece # NoPiece
   /\ SpawnDelayElapsed(pre, now))
    => MoveOutcome

\* C1 witness: a sideways move refused because of a locked cell, not a wall.
C1_Witness ==
  /\ op.name = "Move" /\ op.dy = 0
  /\ pre.gameStatus = "playing" /\ pre.currentPiece # NoPiece
  /\ SpawnDelayElapsed(pre, now)
  /\ state = pre
  /\ \A c \in AbsoluteCells(pre.currentPiece,
                            [x |-> pre.currentPosition.x + op.dx, y |-> pre.currentPosition.y]) :
       c[1] \in FieldXs

\* The piece rotateTetromino is to return, by the catalog
RotatedByCatalog(piece, direction) ==
  LET n == Len(TETROMINO_SHAPES[piece.type])
      r == IF direction = "CW" THEN (piece.rotationState + 1) % n
                               ELSE (piece.rotationState + n - 1) % n
  IN  CatalogPiece(piece.type, r)

\* What RotateCommand is to return on the state it was applied to
RotateOutcome ==
  LET rotated == RotatedByCatalog(pre.currentPiece, op.direction)
      kicks == getWallKickOffsets(pre.currentPiece, pre.currentPiece.rotationState,
                                  rotated.rotationState)
      at(i) == [x |-> pre.currentPosition.x + kicks[i][1],
                y |-> pre.currentPosition.y - kicks[i][2]]
      fits == { i \in 1..Len(kicks) : Placeable(pre.board, rotated, at(i)) }
  IN  IF fits = {}
        THEN state = pre
        ELSE \E i \in fits :
               /\ \A j \in fits : i <= j
               /\ state = [pre EXCEPT !.currentPiece = rotated, !.currentPosition = at(i)]

HardDropOutcome ==
  LET x == pre.currentPosition.x
      y0 == pre.currentPosition.y
      y1 == state.currentPosition.y
  IN  /\ y1 >= y0
      /\ \A y \in (y0 + 1)..y1 : Placeable(pre.board, pre.currentPiece, [x |-> x, y |-> y])
      /\ ~Placeable(pre.board, pre.currentPiece, [x |-> x, y |-> y1 + 1])
      /\ state = [pre EXCEPT !.currentPosition = [x |-> x, y |-> y1],
                             !.score = pre.score + HARD_DROP_POINTS * (y1 - y0),
                             !.lockRequested = TRUE]

\* C4 as stated: on every playing state with an active piece HardDropCommand
\* moves the piece straight down to the lowest row reachable by one-row
\* descents, adds 2 points per row fallen, sets lockRequested and changes
\* nothing else.
C4_HardDropOnPlayingState ==
  (op.name = "HardDrop" /\ pre.gameStatus = "playing" /\ pre.currentPiece # NoPiece)
    => HardDropOutcome

\* C4 amended: the same on playing states with an active piece whose spawn
\* delay has elapsed.
C4_HardDropAfterSpawnDelay ==
  (/\ op.name = "HardDrop" /\ pre.gameStatus = "playing" /\ pre.currentPiece # NoPiece
   /\ SpawnDelayElapsed(pre, now))
    => HardDropOutcome

\* C4 witness: a hard drop of several rows that comes to rest on locked cells
\* above the floor.
C4_Witness ==
  /\ op.name = "HardDrop"
  /\ state.lockRequested
  /\ state.currentPosition.y > pre.currentPosition.y + 1
  /\ \A c \in AbsoluteCells(state.currentPiece, state.currentPosition) :
       c[2] + 1 < BOARD_HEIGHT

\* C5: a command returns its input unchanged when there is no current piece,
\* when the status is not playing, or when less than SPAWN_DELAY has elapsed
\* since the recorded spawn time.
C5_RejectedCommandReturnsInput ==
  (/\ op.name \in CommandNames
   /\ \/ pre.currentPiece = NoPiece
      \/ pre.gameStatus # "playing"
      \/ (pre.lastSpawnTime # 0 /\ now - pre.lastSpawnTime < SPAWN_DELAY))
    => state = pre

\* C5 witness: a move of a placeable piece refused one millisecond before the
\* spawn delay ends.
C5_Witness ==
  /\ op.name = "Move"
  /\ pre.gameStatus = "playing" /\ pre.currentPiece # NoPiece
  /\ pre.lastSpawnTime # 0 /\ now - pre.lastSpawnTime = SPAWN_DELAY - 1
  /\ Placeable(pre.board, pre.currentPiece,
               [x |-> pre.currentPosition.x + op.dx, y |-> pre.currentPosition.y + op.dy])
  /\ state = pre

(***************************************************************************)
(* The game: GameStateManager driven by main.ts                            *)
(***************************************************************************)
MaxTicks == 3
MaxKeys == 2

\* The orders Math.random may leave the refilled bag in: a sample of the
\* permutations of allPieces
ShuffleOutcomes ==
  { <<"I", "O", "T", "S", "Z", "J", "L">>,
    <<"L", "J", "Z", "S", "T", "O", "I">>,
    <<"T", "I", "S", "L", "O", "Z", "J">> }

allPieces == <<"I", "O", "T", "S", "Z", "J", "L">>

\* The swap that forgets to store temp
swap_lossy(b, i, j) == [b EXCEPT ![i + 1] = b[j + 1]]

\* The body of the shuffle loop, indices counted from 0. A type name is a
\* non-empty string, so the test (temp && swap) passes.
swap(b, i, j) == [b EXCEPT ![i + 1] = b[j + 1], ![j + 1] = b[i + 1]]

\* PieceGenerator.shuffle(): every bag the loop can leave, j being any of 0..i
RECURSIVE shuffleFrom(_, _)
shuffleFrom(b, i) ==
  IF i > 0
    THEN UNION { shuffleFrom(swap(b, i, j), i - 1) : j \in 0..i }
    ELSE {b}

shuffle(b) == shuffleFrom(b, Len(b) - 1)

\* PieceGenerator.refillBag(): the bags it can leave
refillBag == shuffle(allPieces)

\* next() refilling while one type is still in the bag
PieceGenerator_draw_earlyRefill(b, shuffles) ==
  LET refilled == IF Len(b) <= 1 THEN shuffles ELSE {b}
  IN  { [piece |-> createTetromino(f[Len(f)]), bag |-> SubSeq(f, 1, Len(f) - 1)] :
          f \in refilled }

\* PieceGenerator.next() where refillBag leaves one of shuffles: the piece
\* returned and the bag left
PieceGenerator_draw(b, shuffles) ==
  LET refilled == IF Len(b) = 0 THEN shuffles ELSE {b}
  IN  { [piece |-> createTetromino(f[Len(f)]), bag |-> SubSeq(f, 1, Len(f) - 1)] :
          f \in refilled }

\* peek() reading the front of the bag
PieceGenerator_peek_front(b, shuffles) ==
  LET refilled == IF Len(b) = 0 THEN shuffles ELSE {b}
  IN  { [piece |-> createTetromino(f[1]), bag |-> f] : f \in refilled }

\* PieceGenerator.peek(): the piece returned and the bag left
PieceGenerator_peek(b, shuffles) ==
  LET refilled == IF Len(b) = 0 THEN shuffles ELSE {b}
  IN  { [piece |-> createTetromino(f[Len(f)]), bag |-> f] : f \in refilled }

\* PieceGenerator.next() in the game, the shuffle drawn from ShuffleOutcomes
PieceGenerator_next(b) == PieceGenerator_draw(b, ShuffleOutcomes)

\* lockRequested and lastSpawnTime are absent from the literal; absent reads
\* as FALSE and 0 here.
createInitialState(b) ==
  { [state |-> [board |-> createEmptyGrid, currentPiece |-> NoPiece,
                currentPosition |-> [x |-> 3, y |-> 0], nextPiece |-> n.piece,
                heldPiece |-> NoPiece, canHold |-> TRUE, score |-> 0, level |-> 1,
                lines |-> 0, gameStatus |-> "idle",
                lockRequested |-> FALSE, lastSpawnTime |-> 0],
     bag |-> n.bag] : n \in PieceGenerator_next(b) }

\* spawnPiece installing the piece it has just drawn instead of nextPiece
spawnPiece_skipsPreview(s, b) ==
  { [state |-> [s EXCEPT !.currentPiece = n.piece,
                         !.currentPosition = [x |-> 3, y |-> 0],
                         !.nextPiece = n.piece,
                         !.canHold = TRUE],
     bag |-> n.bag] : n \in PieceGenerator_next(b) }

spawnPiece(s, b) ==
  { [state |-> [s EXCEPT !.currentPiece = s.nextPiece,
                         !.currentPosition = [x |-> 3, y |-> 0],
                         !.nextPiece = n.piece,
                         !.canHold = TRUE],
     bag |-> n.bag] : n \in PieceGenerator_next(b) }

startGame(b) ==
  UNION { spawnPiece([i.state EXCEPT !.gameStatus = "playing"], i.bag) :
            i \in createInitialState(b) }

\* pause() without its status test
pause_fromAnyStatus(s) == [s EXCEPT !.gameStatus = "paused"]

pause(s) == IF s.gameStatus = "playing" THEN [s EXCEPT !.gameStatus = "paused"] ELSE s

resume(s) == IF s.gameStatus = "paused" THEN [s EXCEPT !.gameStatus = "playing"] ELSE s

reset(b) == createInitialState(b)

\* GameStateManager.lockPiece(): returns at once without a piece, and has no
\* statement after that.
GameStateManager_lockPiece(s) == s

\* GameStateManager.update(deltaTime); due: the accumulated time has reached
\* the drop interval.
update(s, due) ==
  IF s.gameStatus # "playing" THEN s
  ELSE IF s.lockRequested
    THEN GameStateManager_lockPiece([s EXCEPT !.lockRequested = FALSE])
  ELSE IF ~due \/ s.currentPiece = NoPiece THEN s
  ELSE LET below == [x |-> s.currentPosition.x, y |-> s.currentPosition.y + 1]
       IN  IF canPlacePiece(s.board, s.currentPiece, below)
             THEN [s EXCEPT !.currentPosition = below]
             ELSE GameStateManager_lockPiece(s)

\* GameStateManager.setState(state)
setState(s) == s

BoundKeys == {"ArrowLeft", "ArrowRight", "ArrowDown", " ", "ArrowUp", "z"}

\* keyBindings.get(key).execute(s)
executeKey(key, s, t) ==
  CASE key = "ArrowLeft" -> MoveCommand(0 - 1, 0, s, t)
    [] key = "ArrowRight" -> MoveCommand(1, 0, s, t)
    [] key = "ArrowDown" -> SoftDropCommand(s, t)
    [] key = " " -> HardDropCommand(s, t)
    [] key = "ArrowUp" -> RotateCommand("CW", s, t)
    [] key = "z" -> RotateCommand("CCW", s, t)

\* InputManager.update: the pressed keys whose timers let them execute, in
\* insertion order
RECURSIVE InputManager_update(_, _, _)
InputManager_update(keys, s, t) ==
  IF keys = <<>> THEN s
  ELSE InputManager_update(Tail(keys), executeKey(Head(keys), s, t), t)

\* Sequences of distinct bound keys
KeySeqs ==
  { k \in UNION { [1..n -> BoundKeys] : n \in 0..MaxKeys } :
      \A i, j \in 1..Len(k) : i # j => k[i] # k[j] }

fixedDeltaTime == 1000 \div 60

GameFrame == UNCHANGED <<grid, arg, ret, nlocks>>

\* new GameStateManager()
Init ==
  /\ \E i \in createInitialState(<<>>) : state = i.state /\ bag = i.bag
  /\ now = 0 /\ nlocks = 0 /\ grid = <<>> /\ arg = <<>> /\ ret = JsUndefined
  /\ op = NoOp
  /\ pre = state
  /\ steps = 0

\* The keydown listener of main.ts for the game-flow keys
KeyDown ==
  /\ op.name # "input"
  /\ \E key \in {" ", "r", "p"} :
       /\ op' = [name |-> "keydown", key |-> key]
       /\ \E o \in
            IF key = " " /\ state.gameStatus = "idle" THEN startGame(bag)
            ELSE IF key = "r" /\ state.gameStatus = "gameOver"
              THEN UNION { startGame(i.bag) : i \in reset(bag) }
            ELSE IF key = "p" /\ state.gameStatus = "playing"
              THEN {[state |-> pause(state), bag |-> bag]}
            ELSE IF key = "p" /\ state.gameStatus = "paused"
              THEN {[state |-> resume(state), bag |-> bag]}
            ELSE {[state |-> state, bag |-> bag]} :
            state' = o.state /\ bag' = o.bag
  /\ pre' = state
  /\ UNCHANGED <<now, steps>>
  /\ GameFrame

\* The update callback, steps 1 and 2: process input, store the state
TickInput ==
  /\ op.name # "input"
  /\ steps < MaxTicks
  /\ \E keys \in KeySeqs :
       /\ op' = [name |-> "input", keys |-> keys]
       /\ state' = setState(InputManager_update(keys, state, now))
  /\ pre' = state
  /\ UNCHANGED <<bag, now, steps>>
  /\ GameFrame

\* The update callback running the update on the state it read before the
\* input was processed
TickUpdate_onStateBeforeInput ==
  /\ op.name = "input"
  /\ \E due \in BOOLEAN :
       /\ op' = [name |-> "update", due |-> due, keys |-> op.keys, start |-> pre]
       /\ state' = update(pre, due)
  /\ pre' = state
  /\ now' = now + fixedDeltaTime
  /\ steps' = steps + 1
  /\ UNCHANGED bag
  /\ GameFrame

\* The update callback, step 3: gameStateManager.update(deltaTime). op.keys and
\* op.start: the keys executed in this tick and the state the tick started from.
TickUpdate ==
  /\ op.name = "input"
  /\ \E due \in BOOLEAN :
       /\ op' = [name |-> "update", due |-> due, keys |-> op.keys, start |-> pre]
       /\ state' = update(state, due)
  /\ pre' = state
  /\ now' = now + fixedDeltaTime
  /\ steps' = steps + 1
  /\ UNCHANGED bag
  /\ GameFrame

Next == KeyDown \/ TickInput \/ TickUpdate

Spec == Init /\ [][Next]_vars

\* C10: the update that follows a HardDrop while playing locks the dropped
\* piece at once (the piece is written into the grid, full rows are cleared and
\* the next piece stands at the spawn position, not moved by gravity) and
\* clears lockRequested, so the request does not reach the spawned piece.
C10_UpdateLocksHardDroppedPiece ==
  (/\ op.name = "update"
   /\ pre.gameStatus = "playing" /\ pre.currentPiece # NoPiece /\ pre.lockRequested)
    => /\ ~state.lockRequested
       /\ state.board = clearLines(lockPiece(pre.board, pre.currentPiece,
                                             pre.currentPosition)).grid
       /\ state.currentPiece = pre.nextPiece
       /\ state.currentPosition = [x |-> SPAWN_POSITION_X, y |-> SPAWN_POSITION_Y]

(***************************************************************************)
(* GameStateManager, method by method, on GameState values drawn from a    *)
(* bounded set                                                             *)
(***************************************************************************)
MaxManagerOps == 1

calculateScore_tetrisAsTriple(linesCleared, level) ==
  CASE linesCleared = 1 -> SCORE_SINGLE * level
    [] linesCleared = 2 -> SCORE_DOUBLE * level
    [] linesCleared = 3 -> SCORE_TRIPLE * level
    [] linesCleared = 4 -> SCORE_TRIPLE * level
    [] OTHER -> 0

\* GameStateManager.calculateScore(linesCleared), level read from this.state
calculateScore(linesCleared, level) ==
  CASE linesCleared = 1 -> SCORE_SINGLE * level
    [] linesCleared = 2 -> SCORE_DOUBLE * level
    [] linesCleared = 3 -> SCORE_TRIPLE * level
    [] linesCleared = 4 -> SCORE_TETRIS * level
    [] OTHER -> 0

\* GameStateManager.calculateLevel(totalLines)
calculateLevel(totalLines) == (totalLines \div LINES_PER_LEVEL) + 1

\* GameStateManager.movePiece(dx, dy)
movePiece(s, dx, dy) ==
  IF s.currentPiece = NoPiece \/ s.gameStatus # "playing" THEN s
  ELSE [s EXCEPT !.currentPosition = [x |-> s.currentPosition.x + dx,
                                      y |-> s.currentPosition.y + dy]]

\* A grid whose columns 4 and 5 are stacked up to the top row
TowerBoard ==
  [y \in 1..BOARD_HEIGHT |-> [x \in 1..BOARD_WIDTH |-> IF x - 1 \in {4, 5} THEN 6 ELSE 0]]

ManagerBoards == {createEmptyGrid, TowerBoard, JaggedBoard}

\* Arguments of calculateScore and calculateLevel, levels of this.state
LineCounts == (0 - 1)..5
LineTotals == {0, 1, 9, 10, 11, 19, 20, 279, 280, 289, 290, 291, 300, 1000}
Levels == {1, 2, 15, 29}

CommandKeys == BoundKeys \cup {"hold"}

\* command.execute(s) for the bound commands and HoldCommand
executeCommand(key, s, t) ==
  IF key = "hold" THEN HoldCommand(s, t) ELSE executeKey(key, s, t)

InitManager ==
  /\ \E b \in ManagerBoards, piece \in {NoPiece, createTetromino("T")},
        following \in {createTetromino("I"), createTetromino("O")},
        status \in GameStatus, y \in {SPAWN_POSITION_Y, 6},
        requested \in BOOLEAN, level \in Levels, hold \in BOOLEAN :
        /\ status = "idle" => (piece = NoPiece /\ b = createEmptyGrid)
        /\ piece = NoPiece => y = SPAWN_POSITION_Y
        /\ requested => (piece # NoPiece /\ status \in {"playing", "paused"})
        /\ state = [PlayingState(b, piece, [x |-> SPAWN_POSITION_X, y |-> y])
                      EXCEPT !.nextPiece = following, !.gameStatus = status,
                             !.lockRequested = requested, !.level = level,
                             !.canHold = hold,
                             !.lines = (level - 1) * LINES_PER_LEVEL]
  /\ bag \in {<<>>, <<"S", "Z", "J">>}
  /\ now = SpawnedAt /\ nlocks = 0 /\ grid = <<>> /\ arg = <<>> /\ ret = JsUndefined
  /\ op = NoOp
  /\ pre = state
  /\ steps = 0

ManagerFrame == UNCHANGED <<now, grid, arg, nlocks>>

ManagerStep ==
  /\ steps < MaxManagerOps
  /\ steps' = steps + 1
  /\ pre' = state
  /\ ManagerFrame

\* this.spawnPiece()
MSpawnPiece ==
  /\ ManagerStep
  /\ op' = [name |-> "spawnPiece", bag |-> bag]
  /\ \E o \in spawnPiece(state, bag) : state' = o.state /\ bag' = o.bag
  /\ ret' = JsUndefined

MStartGame ==
  /\ ManagerStep
  /\ op' = [name |-> "startGame", bag |-> bag]
  /\ \E o \in startGame(bag) : state' = o.state /\ bag' = o.bag
  /\ ret' = JsUndefined

MReset ==
  /\ ManagerStep
  /\ op' = [name |-> "reset"]
  /\ \E o \in reset(bag) : state' = o.state /\ bag' = o.bag
  /\ ret' = JsUndefined

MPause ==
  /\ ManagerStep
  /\ op' = [name |-> "pause"]
  /\ state' = pause(state)
  /\ ret' = JsUndefined
  /\ UNCHANGED bag

MResume ==
  /\ ManagerStep
  /\ op' = [name |-> "resume"]
  /\ state' = resume(state)
  /\ ret' = JsUndefined
  /\ UNCHANGED bag

MMovePiece ==
  /\ ManagerStep
  /\ \E d \in MoveDeltas :
       /\ op' = [name |-> "movePiece", dx |-> d[1], dy |-> d[2]]
       /\ state' = movePiece(state, d[1], d[2])
  /\ ret' = JsUndefined
  /\ UNCHANGED bag

MUpdate ==
  /\ ManagerStep
  /\ \E due \in BOOLEAN :
       /\ op' = [name |-> "update", due |-> due]
       /\ state' = update(state, due)
  /\ ret' = JsUndefined
  /\ UNCHANGED bag

\* command.execute(getState()) followed by setState
MExecute ==
  /\ ManagerStep
  /\ \E key \in CommandKeys :
       /\ op' = [name |-> "execute", key |-> key]
       /\ state' = setState(executeCommand(key, state, now))
  /\ ret' = JsUndefined
  /\ UNCHANGED bag

MCalculateScore ==
  /\ ManagerStep
  /\ \E n \in LineCounts :
       /\ op' = [name |-> "calculateScore", linesCleared |-> n]
       /\ ret' = JsNumber(calculateScore(n, state.level))
  /\ UNCHANGED <<state, bag>>

MCalculateLevel ==
  /\ ManagerStep
  /\ \E n \in LineTotals :
       /\ op' = [name |-> "calculateLevel", totalLines |-> n]
       /\ ret' = JsNumber(calculateLevel(n))
  /\ UNCHANGED <<state, bag>>

NextManager ==
  \/ MSpawnPiece \/ MStartGame \/ MReset \/ MPause \/ MResume \/ MMovePiece
  \/ MUpdate \/ MExecute \/ MCalculateScore \/ MCalculateLevel

SpecManager == InitManager /\ [][NextManager]_vars

\* C11: a spawn that finds the spawn coordinate blocked turns the status to
\* gameOver and leaves the grid as it was; in gameOver no command, no update,
\* no pause and no resume changes the state.
C11_BlockedSpawnEndsGame ==
  /\ (/\ op.name = "spawnPiece"
      /\ ~Placeable(pre.board, pre.nextPiece,
                    [x |-> SPAWN_POSITION_X, y |-> SPAWN_POSITION_Y]))
       => (state.gameStatus = "gameOver" /\ state.board = pre.board)
  /\ (/\ op.name \in {"execute", "update", "pause", "resume", "movePiece"}
      /\ pre.gameStatus = "gameOver")
       => state = pre

\* C12: pause() turns playing into paused and resume() turns paused into
\* playing; in every other status they change nothing, they change no field
\* but gameStatus, resume() after pause() gives back the state before the
\* pause, and in idle and gameOver no call other than startGame and reset
\* changes the state.
C12_PauseResumeOnlyToggleStatus ==
  /\ op.name = "pause" =>
       /\ state = IF pre.gameStatus = "playing"
                    THEN [pre EXCEPT !.gameStatus = "paused"] ELSE pre
       /\ pre.gameStatus = "playing" => resume(state) = pre
  /\ op.name = "resume" =>
       state = IF pre.gameStatus = "paused"
                 THEN [pre EXCEPT !.gameStatus = "playing"] ELSE pre
  /\ (/\ op.name \in {"pause", "resume", "execute", "update", "movePiece"}
      /\ pre.gameStatus \in {"idle", "gameOver"})
       => state = pre

\* C12 witness: a pause of a playing game with a piece in flight
C12_Witness ==
  /\ op.name = "pause"
  /\ pre.gameStatus = "playing" /\ pre.currentPiece # NoPiece
  /\ state.gameStatus = "paused"

\* C13: Hold on a playing state with an active piece and canHold true (the
\* spawn delay over, so that the command is not refused on that account) makes
\* the active piece the held piece, installs the piece held before, or a
\* supplied piece if none was held, as the active piece and clears canHold;
\* Hold with canHold false returns the state unchanged.
C13_HoldExchangesOncePerSpawn ==
  /\ (/\ op.name = "Hold"
      /\ pre.gameStatus = "playing" /\ pre.currentPiece # NoPiece /\ pre.canHold
      /\ SpawnDelayElapsed(pre, now))
       => /\ state.heldPiece # NoPiece
          /\ state.heldPiece.type = pre.currentPiece.type
          /\ state.currentPiece # NoPiece
          /\ pre.heldPiece # NoPiece => state.currentPiece.type = pre.heldPiece.type
          /\ ~state.canHold
  /\ (op.name = "Hold" /\ ~pre.canHold) => state = pre

(***************************************************************************)
(* PieceGenerator on its own, every shuffle outcome                        *)
(***************************************************************************)
MaxCalls == 14

\* state.group: the types returned by the calls 7k+1.. of the running group
\* of seven; pre: the call before the last one, its result and the bag it left.
InitGen ==
  /\ bag = <<>>
  /\ state = [group |-> {}]
  /\ ret = JsUndefined
  /\ op = NoOp
  /\ pre = [op |-> "new", ret |-> JsUndefined, bag |-> <<>>]
  /\ steps = 0
  /\ now = 0 /\ nlocks = 0 /\ grid = <<>> /\ arg = <<>>

GenFrame == UNCHANGED <<now, nlocks, grid, arg>>

GenHistory == pre' = [op |-> op.name, ret |-> ret, bag |-> bag]

\* generator.next()
GNext ==
  /\ steps < MaxCalls
  /\ \E o \in PieceGenerator_draw(bag, refillBag) :
       /\ bag' = o.bag
       /\ ret' = o.piece
       /\ state' = [group |-> IF steps % 7 = 0 THEN {o.piece.type}
                              ELSE state.group \cup {o.piece.type}]
  /\ op' = [name |-> "next"]
  /\ steps' = steps + 1
  /\ GenHistory
  /\ GenFrame

\* generator.peek()
GPeek ==
  /\ steps < MaxCalls
  /\ \E o \in PieceGenerator_peek(bag, refillBag) :
       /\ bag' = o.bag
       /\ ret' = o.piece
  /\ op' = [name |-> "peek"]
  /\ UNCHANGED <<state, steps>>
  /\ GenHistory
  /\ GenFrame

NextGen == GNext \/ GPeek

SpecGen == InitGen /\ [][NextGen]_vars

\* The sequence next() returns, one type followed: state.tracked is the type,
\* state.since the number of next() calls since it was last returned (-1: not
\* returned yet).
InitGap ==
  /\ bag = <<>>
  /\ \E t \in TetrominoType : state = [tracked |-> t, since |-> 0 - 1]
  /\ ret = JsUndefined
  /\ op = NoOp
  /\ pre = NoState
  /\ steps = 0
  /\ now = 0 /\ nlocks = 0 /\ grid = <<>> /\ arg = <<>>

GapNext ==
  /\ steps < MaxCalls
  /\ \E o \in PieceGenerator_draw(bag, refillBag) :
       /\ bag' = o.bag
       /\ ret' = o.piece
       /\ state' = [state EXCEPT
            !.since = IF o.piece.type = state.tracked THEN 0
                      ELSE IF state.since < 0 THEN state.since
                      ELSE state.since + 1]
  /\ op' = [name |-> "next"]
  /\ steps' = steps + 1
  /\ UNCHANGED pre
  /\ GenFrame

NextGap == GapNext

SpecGap == InitGap /\ [][NextGap]_vars

\* C14: the next() calls 7k+1 to 7k+7 return seven different types, that is
\* each type once; the bag never holds a type twice, and a next() call refills
\* the bag only when it finds it empty.
C14_EachGroupOfSevenHoldsEachTypeOnce ==
  /\ \A i, j \in 1..Len(bag) : i # j => bag[i] # bag[j]
  /\ state.group \subseteq TetrominoType
  /\ steps > 0 => Cardinality(state.group) = ((steps - 1) % 7) + 1
  /\ op.name = "next" =>
       IF pre.bag = <<>>
         THEN Len(bag) = Len(allPieces) - 1
         ELSE bag = SubSeq(pre.bag, 1, Len(pre.bag) - 1)

\* C14 witness: the second group of seven calls is complete.
C14_Witness ==
  /\ op.name = "next" /\ steps = 14
  /\ state.group = TetrominoType

C16_AtMostTwelveBetweenOccurrences == state.since <= 12

\* C16 witness: 12 other pieces returned since the followed type, which is the
\* one left in the bag.
C16_Witness ==
  /\ state.since = 12
  /\ bag = <<state.tracked>>

\* C17: calculateScore(N) at level L is 100 L, 300 L, 500 L, 800 L for
\* N = 1, 2, 3, 4 and 0 for every other N.
C17_ScoreTable ==
  op.name = "calculateScore" =>
    ret = JsNumber(CASE op.linesCleared = 1 -> 100 * pre.level
                     [] op.linesCleared = 2 -> 300 * pre.level
                     [] op.linesCleared = 3 -> 500 * pre.level
                     [] op.linesCleared = 4 -> 800 * pre.level
                     [] OTHER -> 0)

\* C17 witness: four lines at level 15 score 12000.
C17_Witness ==
  /\ op.name = "calculateScore" /\ op.linesCleared = 4
  /\ pre.level = 15
  /\ ret = JsNumber(12000)

\* C18: calculateLevel(totalLines) is floor(totalLines / 10) + 1, and 29 where
\* that exceeds 29.
C18_LevelCappedAtMaxLevel ==
  op.name = "calculateLevel" =>
    LET uncapped == (op.totalLines \div 10) + 1
    IN  ret = JsNumber(IF uncapped > MAX_LEVEL THEN MAX_LEVEL ELSE uncapped)

(***************************************************************************)
(* rotateTetromino applied to the catalog pieces                           *)
(***************************************************************************)
MaxRotations == 4

\* state: the piece in hand; arg.input: the object passed to the last call, as
\* it is after the call; arg.origin: the piece before the running series of
\* rotations in one direction; op.run: the length of that series.
InitPiece ==
  /\ state \in CatalogPieces
  /\ arg = [input |-> state, origin |-> state]
  /\ op = [name |-> "new", direction |-> "none", run |-> 0]
  /\ pre = state
  /\ steps = 0
  /\ bag = <<>> /\ now = 0 /\ nlocks = 0 /\ grid = <<>> /\ ret = JsUndefined

\* piece = rotateTetromino(piece, direction)
PRotate ==
  /\ steps < MaxRotations
  /\ \E direction \in RotationDirection :
       /\ state' = rotateTetromino(state, direction)
       /\ op' = [name |-> "rotate", direction |-> direction,
                 run |-> IF direction = op.direction THEN op.run + 1 ELSE 1]
       /\ arg' = [input |-> state,
                  origin |-> IF direction = op.direction THEN arg.origin ELSE state]
  /\ pre' = state
  /\ steps' = steps + 1
  /\ UNCHANGED <<bag, now, nlocks, grid, ret>>

NextPiece == PRotate

SpecPiece == InitPiece /\ [][NextPiece]_vars

\* C19: rotateTetromino gives rotation state (s + 1) mod n for CW and
\* (s - 1) mod n for CCW with the catalog shape of that index, type and color
\* unchanged; for O it gives rotation state 0 and the same shape; the piece
\* passed in is left as it was.
C19_RotateStepsThroughCatalog ==
  op.name = "rotate" =>
    LET n == Len(TETROMINO_SHAPES[pre.type])
        index == IF op.direction = "CW" THEN (pre.rotationState + 1) % n
                                        ELSE (pre.rotationState - 1) % n
    IN  /\ state.type = pre.type
        /\ state.color = pre.color
        /\ pre.type # "O" =>
             /\ state.rotationState = index
             /\ state.shape = TETROMINO_SHAPES[pre.type][index + 1]
        /\ pre.type = "O" =>
             /\ state.rotationState = 0
             /\ state.shape = pre.shape
        /\ arg.input = pre

\* C19 witness: a counter-clockwise rotation out of rotation state 0 of a
\* piece with four catalog states.
C19_Witness ==
  /\ op.name = "rotate" /\ op.direction = "CCW"
  /\ pre.rotationState = 0 /\ Len(TETROMINO_SHAPES[pre.type]) = 4
  /\ state.rotationState = 3

\* C20: for every type but O and every starting rotation state, four
\* rotations in a row in the same direction give back the starting rotation
\* state and shape.
C20_FourRotationsReturn ==
  (op.name = "rotate" /\ op.run = 4 /\ arg.origin.type # "O")
    => /\ state.rotationState = arg.origin.rotationState
       /\ state.shape = arg.origin.shape

\* C20 witness: four counter-clockwise rotations from rotation state 1, the
\* piece having left its starting shape on the way.
C20_Witness ==
  /\ op.name = "rotate" /\ op.run = 4 /\ op.direction = "CCW"
  /\ arg.origin.type # "O" /\ arg.origin.rotationState = 1
  /\ pre.shape # arg.origin.shape
  /\ state = arg.origin

(***************************************************************************)
(* getWallKickOffsets applied to the catalog pieces                        *)
(***************************************************************************)
\* Rotation states passed as fromRotation and toRotation: the four of the
\* catalog and one beyond each end
KickStates == (0 - 1)..4

InitKick ==
  /\ \E piece \in CatalogPieces, fromRotation \in KickStates, toRotation \in KickStates :
       arg = [piece |-> piece, fromRotation |-> fromRotation, toRotation |-> toRotation]
  /\ op = NoOp
  /\ ret = JsUndefined
  /\ state = NoState /\ pre = NoState
  /\ steps = 0
  /\ bag = <<>> /\ now = 0 /\ nlocks = 0 /\ grid = <<>>

KGetWallKickOffsets ==
  /\ op.name = "new"
  /\ op' = [name |-> "getWallKickOffsets"]
  /\ ret' = JsArray(getWallKickOffsets(arg.piece, arg.fromRotation, arg.toRotation))
  /\ steps' = steps + 1
  /\ UNCHANGED <<state, pre, arg, bag, now, nlocks, grid>>

NextKick == KGetWallKickOffsets

SpecKick == InitKick /\ [][NextKick]_vars

\* The pairs the kick tables list: between rotation states of 0..3 that are
\* one quarter turn apart
QuarterTurn(fromRotation, toRotation) ==
  /\ fromRotation \in 0..3 /\ toRotation \in 0..3
  /\ (toRotation - fromRotation) % 4 \in {1, 3}

\* C21: getWallKickOffsets returns a non-empty list that starts with (0,0);
\* for O and for a pair its table does not list the list is [(0,0)] alone;
\* J, L, S, T and Z get the same list, and I gets another one for every pair
\* the tables list.
C21_KickListStartsWithNoKick ==
  op.name = "getWallKickOffsets" =>
    LET kicks == ret.val
        shared == getWallKickOffsets(createTetromino("T"), arg.fromRotation, arg.toRotation)
    IN  /\ ret.kind = "array"
        /\ Len(kicks) >= 1
        /\ kicks[1] = <<0, 0>>
        /\ (arg.piece.type = "O" \/ ~QuarterTurn(arg.fromRotation, arg.toRotation))
             => kicks = << <<0, 0>> >>
        /\ arg.piece.type \notin {"I", "O"} => kicks = shared
        /\ (arg.piece.type = "I" /\ QuarterTurn(arg.fromRotation, arg.toRotation))
             => (Len(kicks) = 5 /\ kicks # shared)

\* C21 witness: J from 2 to 0, a pair the table does not list.
C21_Witness ==
  /\ op.name = "getWallKickOffsets"
  /\ arg.piece.type = "J" /\ arg.fromRotation = 2 /\ arg.toRotation = 0
  /\ ret = JsArray(<< <<0, 0>> >>)

\* C22: SoftDropCommand leaves the piece where MoveCommand(0, +1) would leave
\* it from the same state; it adds exactly 1 to the score if the piece went
\* down one row and changes nothing else, and if the piece did not go down it
\* returns the state, score included, unchanged.
C22_SoftDropIsMoveDownPlusOnePoint ==
  op.name = "SoftDrop" =>
    LET moved == MoveCommand(0, 1, pre, now)
    IN  /\ state.currentPosition = moved.currentPosition
        /\ IF moved.currentPosition # pre.currentPosition
             THEN state = [moved EXCEPT !.score = pre.score + 1]
             ELSE state = pre

\* C22 witness: a soft drop of one row above locked cells.
C22_Witness ==
  /\ op.name = "SoftDrop"
  /\ state.currentPosition.y = pre.currentPosition.y + 1
  /\ state.score = pre.score + 1
  /\ LockedCount(pre.board) > 0

\* The piece p is the one next() hands out of the bag b (op.bag: the bag
\* before the call), leaving the bag left
Dispensed(p, b, left) ==
  /\ p \in { createTetromino(t) : t \in TetrominoType }
  /\ IF b = <<>>
       THEN /\ Len(left) = Len(allPieces) - 1
            /\ \A i \in 1..Len(left) : left[i] # p.type
       ELSE /\ p.type = b[Len(b)]
            /\ left = SubSeq(b, 1, Len(b) - 1)

\* C23: a spawn installs the piece that was nextPiece just before it, in
\* rotation state 0 at (3,0), puts a piece newly handed out by the generator
\* in nextPiece, sets canHold and changes nothing else; startGame spawns in
\* the same way the first piece it has drawn.
C23_SpawnInstallsThePreviewedPiece ==
  /\ op.name = "spawnPiece" =>
       /\ state.currentPiece = pre.nextPiece
       /\ state.currentPiece.rotationState = 0
       /\ state.currentPosition = [x |-> 3, y |-> 0]
       /\ state.canHold
       /\ Dispensed(state.nextPiece, op.bag, bag)
       /\ state = [pre EXCEPT !.currentPiece = state.currentPiece,
                              !.currentPosition = state.currentPosition,
                              !.nextPiece = state.nextPiece,
                              !.canHold = TRUE]
  /\ op.name = "startGame" =>
       /\ state.currentPiece.rotationState = 0
       /\ state.currentPosition = [x |-> 3, y |-> 0]
       /\ state.canHold
       /\ LET mid == IF op.bag # <<>> THEN SubSeq(op.bag, 1, Len(op.bag) - 1)
                                      ELSE Append(bag, state.nextPiece.type)
          IN  /\ Dispensed(state.currentPiece, op.bag, mid)
              /\ Dispensed(state.nextPiece, mid, bag)

\* C23 witness: a spawn in a playing state whose hold had been used, the
\* preview differing from the piece in hand and the bag not empty.
C23_Witness ==
  /\ op.name = "spawnPiece"
  /\ pre.gameStatus = "playing" /\ ~pre.canHold
  /\ pre.currentPiece # NoPiece /\ pre.currentPiece.type # pre.nextPiece.type
  /\ op.bag # <<>>
  /\ state.currentPiece = pre.nextPiece /\ state.canHold

\* C24: a spawn, at game start or later, records the time of the spawn in the
\* state, and a command executed less than SPAWN_DELAY after it returns the
\* state unchanged.
C24_SpawnRecordsItsTime ==
  op.name \in {"spawnPiece", "startGame"} =>
    /\ state.lastSpawnTime = now
    /\ \A key \in CommandKeys, elapsed \in {0, 1, SPAWN_DELAY - 1} :
         executeCommand(key, state, now + elapsed) = state

\* C25: in one tick the commands of the executed keys are applied first, in
\* order, to the state the tick started from, and the update then works on
\* the state they left: the state after the tick is the update of that state.
C25_InputBeforeUpdateInATick ==
  op.name = "update" =>
    LET afterInput == InputManager_update(op.keys, op.start, now - fixedDeltaTime)
    IN  /\ pre = afterInput
        /\ state = update(afterInput, op.due)

\* C25 witness: a tick in which the piece, resting on the floor, is moved
\* sideways by a key and gravity, being due, then finds it unable to descend.
C25_Witness ==
  /\ op.name = "update" /\ op.due
  /\ pre.gameStatus = "playing" /\ pre.currentPiece # NoPiece
  /\ ~pre.lockRequested
  /\ pre.currentPosition.x # op.start.currentPosition.x
  /\ ~Placeable(pre.board, pre.currentPiece,
                [x |-> pre.currentPosition.x, y |-> pre.currentPosition.y + 1])
  /\ state.currentPosition = pre.currentPosition

\* C28: after any sequence of setCell, lockPiece, clearLines and reset the
\* grid has BOARD_HEIGHT rows of BOARD_WIDTH cells each, and a setCell whose
\* coordinates lie outside the field returns normally and changes no cell.
C28_GridKeepsItsDimensions ==
  /\ WellFormed(grid)
  /\ (/\ op.name = "setCell"
      /\ ~(arg.position.x \in FieldXs /\ arg.position.y \in FieldYs))
       => grid = pre /\ ret = JsUndefined

\* C28 witness: the second call of a sequence is a setCell on a row of the
\* field at a column beyond its right edge.
C28_Witness ==
  /\ op.name = "setCell" /\ steps >= 2
  /\ arg.position.x >= BOARD_WIDTH /\ arg.position.y \in FieldYs
  /\ grid = pre /\ grid # createEmptyGrid

\* The values lockPiece writes for a piece: those of the cells it fills on an
\* empty grid at the spawn position
LockedValues(piece) ==
  { getCell(lockPiece(createEmptyGrid, piece, SpawnPosition), c[1], c[2]) :
      c \in AbsoluteCells(piece, SpawnPosition) }

\* C29: after lockPiece every cell of the field the piece fills holds a value
\* of 1..7 that identifies the piece's type: no piece of another type is
\* locked with that value.
C29_LockedCellIdentifiesPieceType ==
  op.name = "lockPiece" =>
    \A c \in AbsoluteCells(arg.piece, arg.position) :
      (c[1] \in FieldXs /\ c[2] \in FieldYs) =>
        LET value == getCell(grid, c[1], c[2])
        IN  /\ value \in 1..7
            /\ \A type \in TetrominoType \ {arg.piece.type} :
                 value \notin LockedValues(createTetromino(type))

(***************************************************************************)
(* createTetromino and rotateTetromino called with types the catalog has   *)
(* and with types it lacks                                                 *)
(***************************************************************************)
\* Values passed as a type that are not catalog types: a plain unknown
\* letter and an inherited key
UnknownTypes == {"X"} \cup InheritedKeys

\* Pieces whose type field was overwritten with an unknown type
ForgedPieces ==
  { [p EXCEPT !.type = type] : p \in CatalogPieces, type \in UnknownTypes }

\* Rotation states no catalog lists, below and above the range
StrayRotationStates == {0 - 5, 0 - 3, 0 - 1, 4, 5}

\* Catalog pieces whose rotationState was overwritten with such a state
StrayPieces ==
  { [p EXCEPT !.rotationState = r] :
      p \in { createTetromino(type) : type \in TetrominoType },
      r \in StrayRotationStates }

InitThrow ==
  /\ arg \in [piece : CatalogPieces \cup ForgedPieces \cup StrayPieces]
  /\ op = NoOp
  /\ ret = JsUndefined
  /\ state = NoState /\ pre = NoState
  /\ steps = 0
  /\ bag = <<>> /\ now = 0 /\ nlocks = 0 /\ grid = <<>>

ThrowFrame == UNCHANGED <<state, pre, arg, bag, now, nlocks, grid>>

\* createTetromino(piece.type)
TCreateTetromino ==
  /\ op.name = "new"
  /\ op' = [name |-> "createTetromino"]
  /\ ret' = createTetromino(arg.piece.type)
  /\ steps' = steps + 1
  /\ ThrowFrame

\* rotateTetromino(piece, direction)
TRotateTetromino ==
  /\ op.name = "new"
  /\ \E direction \in RotationDirection :
       /\ op' = [name |-> "rotateTetromino", direction |-> direction]
       /\ ret' = rotateTetromino(arg.piece, direction)
  /\ steps' = steps + 1
  /\ ThrowFrame

NextThrow == TCreateTetromino \/ TRotateTetromino

SpecThrow == InitThrow /\ [][NextThrow]_vars

\* C30: createTetromino and rotateTetromino called with a type that is not
\* one of the 7 catalog types end by a throw; they return no piece.
C30_UnknownTypeThrows ==
  (/\ op.name \in {"createTetromino", "rotateTetromino"}
   /\ arg.piece.type \notin TetrominoType)
    => Thrown(ret)

\* C30 witness: createTetromino was called with a key the catalog object
\* inherits but does not list, and threw.
C30_Witness ==
  /\ op.name = "createTetromino"
  /\ arg.piece.type \in InheritedKeys
  /\ Thrown(ret)

(***************************************************************************)
(* Arrays as objects.  The heap is the sequence of the arrays allocated so *)
(* far, the address of an array its index; a grid is an outer array whose  *)
(* elements are the addresses of its row arrays.  In SpecCopy, state is    *)
(* the heap, grid the address held by the Board's field this.grid, ret the *)
(* array last returned by getGrid, pre the cells of the Board's grid and   *)
(* of the returned array before the last call.                             *)
(***************************************************************************)
MaxCopyOps == 3

\* A reference to the array at an address, as a returned value
JsRef(address) == [kind |-> "ref", val |-> address]

\* Allocation of a grid with the given cells: its rows first, then the outer
\* array
newGrid(h, g) ==
  LET outer == [i \in 1..Len(g) |-> Len(h) + i]
  IN  [heap |-> Append(h \o g, outer), ref |-> Len(h) + Len(g) + 1]

\* The cells reached from an outer array
DerefGrid(h, outer) == [i \in 1..Len(h[outer]) |-> h[h[outer][i]]]

\* Assignments to elements of the existing rows of this.grid that leave it
\* with the cells g
writeRows(h, this, g) ==
  [a \in 1..Len(h) |->
     IF \E i \in 1..Len(h[this]) : h[this][i] = a
       THEN g[CHOOSE i \in 1..Len(h[this]) : h[this][i] = a]
       ELSE h[a]]

\* setCell on the heap: row[x] = value on the row object of this.grid
heapSetCell(h, this, x, y, value) ==
  writeRows(h, this, setCell(DerefGrid(h, this), x, y, value))

\* lockPiece on the heap: a series of setCell calls
heapLockPiece(h, this, piece, position) ==
  writeRows(h, this, lockPiece(DerefGrid(h, this), piece, position))

\* clearLines' removal loop on the heap: this.grid.splice(lineY, 1) and
\* this.grid.unshift(new Array(width).fill(0)) change the outer array in
\* place and allocate one row each time
RECURSIVE heapRemoveLoop(_, _, _, _)
heapRemoveLoop(h, this, lines, linesCleared) ==
  IF lines = <<>> THEN [heap |-> h, linesCleared |-> linesCleared]
  ELSE LET h1 == Append(h, [x \in 1..BOARD_WIDTH |-> 0])
           h2 == [h1 EXCEPT ![this] = unshift(splice1(@, Head(lines)), Len(h1))]
       IN  heapRemoveLoop(h2, this, Tail(lines), linesCleared + 1)

heapClearLines(h, this) ==
  heapRemoveLoop(h, this, linesToClear(DerefGrid(h, this)), 0)

\* reset on the heap: this.grid = this.createEmptyGrid()
heapReset(h) == newGrid(h, createEmptyGrid)

\* getGrid returning the array the Board itself holds
getGrid_sameArray(h, this) == [heap |-> h, ref |-> this]

\* getGrid: this.grid.map((row) => [...row]), a new outer array of new rows
getGrid(h, this) == newGrid(h, DerefGrid(h, this))

\* cloned[y][x] = value, by the caller that holds the returned array
writeReturned(h, returned, x, y, value) ==
  [h EXCEPT ![h[returned][y + 1]][x + 1] = value]

\* Boards the calls start from: those of the placement tests and two with
\* complete rows
CopyBoards ==
  PlaceBoards \cup
    { fillStack(createEmptyGrid, <<"full", "allButOne", "full">>, 1),
      fillStack(createEmptyGrid, <<"allButFirst", "full">>, 1) }

InitCopy ==
  /\ \E g \in CopyBoards :
       LET r == newGrid(<<>>, g)
       IN  state = r.heap /\ grid = r.ref /\ pre = [board |-> g, copy |-> <<>>]
  /\ arg \in StackArgs
  /\ op = NoOp
  /\ ret = JsUndefined
  /\ steps = 0
  /\ bag = <<>> /\ now = 0 /\ nlocks = 0

CopyFrame == UNCHANGED <<bag, now, nlocks, arg>>

\* What the Board and the caller see before a call
CopySnapshot ==
  [board |-> DerefGrid(state, grid),
   copy  |-> IF ret.kind = "ref" THEN DerefGrid(state, ret.val) ELSE <<>>]

CopyStep ==
  /\ steps < MaxCopyOps
  /\ pre' = CopySnapshot
  /\ steps' = steps + 1
  /\ CopyFrame

\* returned = board.getGrid()
HGetGrid ==
  /\ CopyStep
  /\ op' = [name |-> "getGrid"]
  /\ LET r == getGrid(state, grid)
     IN  state' = r.heap /\ ret' = JsRef(r.ref)
  /\ grid' = grid

\* returned[position.y][position.x] = value
HWriteReturned ==
  /\ CopyStep
  /\ ret.kind = "ref"
  /\ \E value \in {0, 5} :
       /\ op' = [name |-> "writeReturned", value |-> value]
       /\ state' = writeReturned(state, ret.val, arg.position.x, arg.position.y, value)
  /\ UNCHANGED <<grid, ret>>

\* board.setCell(position.x, position.y, 1)
HSetCell ==
  /\ CopyStep
  /\ op' = [name |-> "setCell"]
  /\ state' = heapSetCell(state, grid, arg.position.x, arg.position.y, 1)
  /\ UNCHANGED <<grid, ret>>

\* board.lockPiece(piece, position)
HLockPiece ==
  /\ CopyStep
  /\ op' = [name |-> "lockPiece"]
  /\ state' = heapLockPiece(state, grid, arg.piece, arg.position)
  /\ UNCHANGED <<grid, ret>>

\* board.clearLines()
HClearLines ==
  /\ CopyStep
  /\ op' = [name |-> "clearLines"]
  /\ state' = heapClearLines(state, grid).heap
  /\ UNCHANGED <<grid, ret>>

\* board.reset()
HReset ==
  /\ CopyStep
  /\ op' = [name |-> "reset"]
  /\ LET r == heapReset(state)
     IN  state' = r.heap /\ grid' = r.ref
  /\ UNCHANGED ret

NextCopy ==
  \/ HGetGrid
  \/ HWriteReturned
  \/ HSetCell
  \/ HLockPiece
  \/ HClearLines
  \/ HReset

SpecCopy == InitCopy /\ [][NextCopy]_vars

BoardCalls == {"setCell", "lockPiece", "clearLines", "reset"}

\* C27: getGrid returns a copy: a write to a cell of the returned array leaves
\* every cell getCell reads as it was, and a later Board call leaves every
\* cell of an array returned earlier as it was; when returned, the array
\* holds the cells of the Board.
C27_GetGridReturnsDefensiveCopy ==
  /\ op.name = "getGrid" => DerefGrid(state, ret.val) = DerefGrid(state, grid)
  /\ op.name = "writeReturned" =>
       \A x \in FieldXs, y \in FieldYs :
         getCell(DerefGrid(state, grid), x, y) = getCell(pre.board, x, y)
  /\ (op.name \in BoardCalls /\ ret.kind = "ref") =>
       DerefGrid(state, ret.val) = pre.copy

\* C27 witness: a write changed a cell of the returned array, which now
\* differs from the Board's cell at the same place.
C27_Witness ==
  /\ op.name = "writeReturned"
  /\ DerefGrid(state, ret.val) # pre.copy
  /\ getCell(DerefGrid(state, ret.val), arg.position.x, arg.position.y)
       # getCell(DerefGrid(state, grid), arg.position.x, arg.position.y)

\* A Board call changed the Board's cells after an array had been returned.
C27_WitnessLaterCall ==
  /\ op.name \in BoardCalls /\ ret.kind = "ref"
  /\ DerefGrid(state, grid) # pre.board
  /\ DerefGrid(state, ret.val) = pre.copy

(***************************************************************************)
(* The commands on the heap.  A GameState object holds the addresses of    *)
(* its board array and of its currentPosition object; its pieces and       *)
(* scalars are values.  In SpecAlias, state is the heap, arg.input the     *)
(* address of the GameState passed to the last call, ret the GameState     *)
(* that call returned, pre the heap before the call.                       *)
(***************************************************************************)
MaxAliasOps == 2

\* The GameState a state object stands for: its board's cells and its
\* position read through the addresses it holds
DerefState(h, gameState) ==
  [h[gameState] EXCEPT !.board = DerefGrid(h, @), !.currentPosition = h[@]]

\* Allocation of a GameState with the given value: board, position, object
newState(h, value) ==
  LET b == newGrid(h, value.board)
      h1 == Append(b.heap, value.currentPosition)
      object == [value EXCEPT !.board = b.ref, !.currentPosition = Len(h1)]
  IN  [heap |-> Append(h1, object), ref |-> Len(h1) + 1]

\* new Board(width, height, gameState.board): grid.map((row) => [...row])
newBoard(h, gameState) == newGrid(h, DerefGrid(h, h[gameState].board))

\* The changed fields assigned to the object that was passed in
spreadState_assignedInPlace(h, gameState, value) ==
  [heap |-> [h EXCEPT ![h[gameState].currentPosition] = value.currentPosition,
                      ![gameState] = [value EXCEPT !.board = h[gameState].board,
                                                   !.currentPosition =
                                                     h[gameState].currentPosition]],
   ref |-> gameState]

\* return { ...gameState, currentPosition: {...}, ... }: a new position
\* object and a new state object that holds the input's board array
spreadState(h, gameState, value) ==
  LET h1 == Append(h, value.currentPosition)
      object == [value EXCEPT !.board = h[gameState].board,
                              !.currentPosition = Len(h1)]
  IN  [heap |-> Append(h1, object), ref |-> Len(h1) + 1]

\* The common course of execute: the guard, the Board built from the input's
\* grid, then either the input itself or a new object with the value the
\* command computes
heapExecute(h, gameState, rejected, applied, value) ==
  IF rejected THEN [heap |-> h, ref |-> gameState]
  ELSE LET b == newBoard(h, gameState)
       IN  IF applied THEN spreadState(b.heap, gameState, value)
                      ELSE [heap |-> b.heap, ref |-> gameState]

heapMoveCommand(dx, dy, h, gameState, t) ==
  LET s == DerefState(h, gameState)
  IN  heapExecute(h, gameState, commandRejected(s, t),
        canPlacePiece(s.board, s.currentPiece,
                      [x |-> s.currentPosition.x + dx, y |-> s.currentPosition.y + dy]),
        MoveCommand(dx, dy, s, t))

heapRotateCommand(direction, h, gameState, t) ==
  LET s == DerefState(h, gameState)
      rotatedPiece == rotateTetromino(s.currentPiece, direction)
      kicks == getWallKickOffsets(s.currentPiece, s.currentPiece.rotationState,
                                  rotatedPiece.rotationState)
  IN  heapExecute(h, gameState, commandRejected(s, t),
        \E i \in 1..Len(kicks) :
          canPlacePiece(s.board, rotatedPiece, kickPosition(s.currentPosition, kicks[i])),
        RotateCommand(direction, s, t))

heapSoftDropCommand(h, gameState, t) ==
  LET s == DerefState(h, gameState)
  IN  heapExecute(h, gameState, commandRejected(s, t),
        canPlacePiece(s.board, s.currentPiece,
                      [x |-> s.currentPosition.x, y |-> s.currentPosition.y + 1]),
        SoftDropCommand(s, t))

heapHardDropCommand(h, gameState, t) ==
  LET s == DerefState(h, gameState)
  IN  heapExecute(h, gameState, commandRejected(s, t), TRUE, HardDropCommand(s, t))

\* HoldCommand returns the object it was given on every path
heapHoldCommand(h, gameState, t) == [heap |-> h, ref |-> gameState]

\* The states the commands are first given: a piece in play over each board,
\* in the open, at the left wall and near the floor; a paused game; a game
\* without a piece; a piece inside its spawn delay
AliasStates ==
  { PlayingState(b, piece, [x |-> x, y |-> y]) :
      b \in CmdBoards,
      piece \in {createTetromino("T"), createTetromino("O"), CatalogPiece("I", 1)},
      x \in {0 - 1, 3}, y \in {0, BOARD_HEIGHT - 4} }
  \cup { [PlayingState(JaggedBoard, createTetromino("T"), SpawnPosition)
            EXCEPT !.gameStatus = "paused"],
         PlayingState(JaggedBoard, NoPiece, SpawnPosition),
         [PlayingState(JaggedBoard, createTetromino("T"), SpawnPosition)
            EXCEPT !.lastSpawnTime = SpawnedAt] }

InitAlias ==
  /\ \E value \in AliasStates :
       /\ value.currentPiece # NoPiece =>
            canPlacePiece(value.board, value.currentPiece, value.currentPosition)
       /\ LET r == newState(<<>>, value)
          IN  state = r.heap /\ ret = JsRef(r.ref) /\ arg = [input |-> r.ref]
  /\ pre = state
  /\ now = SpawnedAt
  /\ op = NoOp
  /\ steps = 0
  /\ bag = <<>> /\ nlocks = 0 /\ grid = <<>>

AliasFrame == UNCHANGED <<bag, now, nlocks, grid>>

\* next = command.execute(current): the call is made on the state the last
\* call returned
AliasStep(result) ==
  /\ steps < MaxAliasOps
  /\ state' = result.heap
  /\ ret' = JsRef(result.ref)
  /\ arg' = [input |-> ret.val]
  /\ pre' = state
  /\ steps' = steps + 1
  /\ AliasFrame

AMove ==
  \E d \in MoveDeltas :
    /\ op' = [name |-> "Move", dx |-> d[1], dy |-> d[2]]
    /\ AliasStep(heapMoveCommand(d[1], d[2], state, ret.val, now))

ARotate ==
  \E direction \in RotationDirection :
    /\ op' = [name |-> "Rotate", direction |-> direction]
    /\ AliasStep(heapRotateCommand(direction, state, ret.val, now))

ASoftDrop ==
  /\ op' = [name |-> "SoftDrop"]
  /\ AliasStep(heapSoftDropCommand(state, ret.val, now))

AHardDrop ==
  /\ op' = [name |-> "HardDrop"]
  /\ AliasStep(heapHardDropCommand(state, ret.val, now))

AHold ==
  /\ op' = [name |-> "Hold"]
  /\ AliasStep(heapHoldCommand(state, ret.val, now))

NextAlias ==
  \/ AMove
  \/ ARotate
  \/ ASoftDrop
  \/ AHardDrop
  \/ AHold

SpecAlias == InitAlias /\ [][NextAlias]_vars

\* C26: execute leaves its input as it was: after the call the object passed
\* in holds the same fields, and the state read through it, every cell of
\* its board included, is the state read through it before the call,
\* whether the call returned a new object or the input itself.
C26_ExecuteLeavesInputUnchanged ==
  op.name \in CommandNames =>
    /\ state[arg.input] = pre[arg.input]
    /\ DerefState(state, arg.input) = DerefState(pre, arg.input)

\* C26 witness: a command was applied: it returned a new object whose state
\* differs from the input's.
C26_Witness ==
  /\ op.name \in CommandNames
  /\ ret.val # arg.input
  /\ DerefState(state, ret.val) # DerefState(state, arg.input)

\* A command was rejected and returned the object it was given.
C26_WitnessRejected ==
  /\ op.name \in CommandNames
  /\ commandRejected(DerefState(pre, arg.input), now)
  /\ ret.val = arg.input

\* C31: rotateTetromino given a piece of a catalog type whose rotationState
\* lies outside 0..n-1, n the number of catalog states of the type, ends by
\* a throw and returns no piece.
C31_StrayRotationStateThrows ==
  (/\ op.name = "rotateTetromino"
   /\ arg.piece.type \in TetrominoType
   /\ arg.piece.rotationState \notin 0..(Len(TETROMINO_SHAPES[arg.piece.type]) - 1))
    => Thrown(ret)

(***************************************************************************)
(* A piece dropped, locked and cleared: one piece is taken from a playing  *)
(* state to its resting place, by one HardDrop or by SoftDrops repeated    *)
(* until one changes nothing, then written into the Board with lockPiece,  *)
(* then clearLines is called and its count is scored with calculateScore.  *)
(* In SpecDrop, state is the GameState, grid the Board's grid, arg.origin  *)
(* the state the piece started from.                                       *)
(***************************************************************************)
\* Row BOARD_HEIGHT - 1 locked in every column but the last; in every column
\* but the last two
AllButLastColumn == fillStack(createEmptyGrid, <<"allButOne">>, 1)
AllButLastTwoColumns == fillStack(createEmptyGrid, <<"eight">>, 1)

DropBoards == {createEmptyGrid, AllButLastColumn, AllButLastTwoColumns, JaggedBoard}
DropPieces ==
  {createTetromino("O"), createTetromino("I"), CatalogPiece("I", 1), createTetromino("T")}
DropXs == {0 - 1, 3, 7, 8}
DropYs == {0 - 2, 0, 5}
DropLevels == {1, 2}

InitDrop ==
  /\ \E b \in DropBoards, piece \in DropPieces, x \in DropXs, y \in DropYs,
        level \in DropLevels :
       state = [PlayingState(b, piece, [x |-> x, y |-> y]) EXCEPT !.level = level]
  /\ grid = state.board
  /\ arg = [origin |-> state]
  /\ pre = state
  /\ op = NoOp
  /\ ret = JsUndefined
  /\ steps = 0
  /\ now = 0 /\ bag = <<>> /\ nlocks = 0

DropFrame == UNCHANGED <<arg, now, bag, nlocks>>

\* new HardDropCommand().execute(state), as the first call
DHardDrop ==
  /\ op.name = "new"
  /\ state' = HardDropCommand(state, now)
  /\ op' = [name |-> "HardDrop",
            dropDistance |-> dropScan(state, state.currentPosition.y, 0).dropDistance]
  /\ pre' = state
  /\ steps' = steps + 1
  /\ UNCHANGED <<grid, ret>>
  /\ DropFrame

\* new SoftDropCommand().execute(state), repeated while it changes the state;
\* op.run counts the calls that did
DSoftDrop ==
  /\ \/ op.name = "new"
     \/ op.name = "SoftDrop" /\ state # pre
  /\ state' = SoftDropCommand(state, now)
  /\ op' = [name |-> "SoftDrop",
            run |-> (IF op.name = "SoftDrop" THEN op.run ELSE 0)
                      + (IF state' # state THEN 1 ELSE 0)]
  /\ pre' = state
  /\ steps' = steps + 1
  /\ UNCHANGED <<grid, ret>>
  /\ DropFrame

\* board.lockPiece(currentPiece, currentPosition) once the piece rests
DLockPiece ==
  /\ \/ op.name = "HardDrop"
     \/ op.name = "SoftDrop" /\ state = pre
  /\ canPlacePiece(state.board, state.currentPiece, state.currentPosition)
  /\ grid' = lockPiece(grid, state.currentPiece, state.currentPosition)
  /\ op' = [name |-> "lockPiece"]
  /\ pre' = state
  /\ steps' = steps + 1
  /\ UNCHANGED <<state, ret>>
  /\ DropFrame

\* board.clearLines() and calculateScore(linesCleared, level)
DClearLines ==
  /\ op.name = "lockPiece"
  /\ LET r == clearLines(grid)
     IN  /\ grid' = r.grid
         /\ ret' = JsNumber(r.linesCleared)
         /\ op' = [name |-> "clearLines",
                   points |-> calculateScore(r.linesCleared, state.level)]
  /\ pre' = state
  /\ steps' = steps + 1
  /\ UNCHANGED state
  /\ DropFrame

NextDrop ==
  \/ DHardDrop
  \/ DSoftDrop
  \/ DLockPiece
  \/ DClearLines

SpecDrop == InitDrop /\ [][NextDrop]_vars

\* The case of C32: row BOARD_HEIGHT - 1 locked in every column but the last,
\* an O piece over the last two columns, hard-dropped, locked and cleared
OPieceOverLastColumns ==
  /\ op.name = "clearLines"
  /\ state.lockRequested
  /\ arg.origin.board = AllButLastColumn
  /\ arg.origin.currentPiece = createTetromino("O")
  /\ arg.origin.currentPosition.x = BOARD_WIDTH - 2
  /\ arg.origin.currentPosition.y >= 0

\* Every one of the given cells <<x, y>> is locked
LockedAtAll(g, cells) == \A c \in cells : Locked(g, c[1], c[2])

\* C32 as stated: the drop completes the bottom row: one line is cleared, two
\* cells of the piece stay locked, and the score rises by SCORE_SINGLE times
\* the level plus HARD_DROP_POINTS per row fallen.
C32_DropCompletesBottomRow ==
  OPieceOverLastColumns =>
    /\ ret = JsNumber(1)
    /\ LockedCount(grid) = 2
    /\ (state.score - arg.origin.score) + op.points
         = SCORE_SINGLE * state.level
           + HARD_DROP_POINTS * (state.currentPosition.y - arg.origin.currentPosition.y)

\* C32: the O piece comes to rest on the locked cell of the second to last
\* column, in rows BOARD_HEIGHT - 3 and BOARD_HEIGHT - 2: no line is cleared,
\* its four cells and the bottom row stay as locked, and the score rises by
\* HARD_DROP_POINTS per row fallen only.
C32_DropRestsAboveBottomRow ==
  OPieceOverLastColumns =>
    /\ ret = JsNumber(0)
    /\ state.currentPosition = [x |-> BOARD_WIDTH - 2, y |-> BOARD_HEIGHT - 3]
    /\ LockedAtAll(grid, (8..9) \X ((BOARD_HEIGHT - 3)..(BOARD_HEIGHT - 2)))
    /\ LockedCount(grid) = LockedCount(arg.origin.board) + 4
    /\ grid[BOARD_HEIGHT] = arg.origin.board[BOARD_HEIGHT]
    /\ op.points = 0
    /\ state.score - arg.origin.score
         = HARD_DROP_POINTS * (BOARD_HEIGHT - 3 - arg.origin.currentPosition.y)

\* C32 witness: the O piece was hard-dropped from row 0 over the last two
\* columns, locked, and clearLines was called.
C32_Witness ==
  /\ OPieceOverLastColumns
  /\ arg.origin.currentPosition.y = 0
  /\ op.name = "clearLines"
  /\ ~Locked(grid, BOARD_WIDTH - 1, BOARD_HEIGHT - 1)

\* The piece of the state a drop started from is placeable where it is.
OriginPlaceable ==
  Placeable(arg.origin.board, arg.origin.currentPiece, arg.origin.currentPosition)

\* The example of C36: an O piece at the spawn position on an empty board
OPieceAtSpawn ==
  arg.origin = [PlayingState(createEmptyGrid, createTetromino("O"), SpawnPosition)
                  EXCEPT !.level = arg.origin.level]

\* C36: SoftDrop repeated until it changes nothing leaves the piece where one
\* HardDrop from the same state puts it, after as many descents as the hard
\* drop distance, with SOFT_DROP_POINTS a row against HARD_DROP_POINTS; the O
\* piece spawned on an empty board descends 18 times to (3,18), where locking
\* it fills four cells of the two bottom rows and clears no line.
C36_SoftDropsReachHardDropPosition ==
  /\ (op.name = "SoftDrop" /\ state = pre /\ OriginPlaceable) =>
       LET h == HardDropCommand(arg.origin, now)
           d == dropScan(arg.origin, arg.origin.currentPosition.y, 0).dropDistance
       IN  /\ state.currentPosition = h.currentPosition
           /\ op.run = d
           /\ state.score - arg.origin.score = SOFT_DROP_POINTS * d
           /\ h.score - arg.origin.score = HARD_DROP_POINTS * d
  /\ (op.name = "SoftDrop" /\ state = pre /\ OPieceAtSpawn) =>
       op.run = 18 /\ state.currentPosition = [x |-> 3, y |-> 18]
  /\ (op.name = "clearLines" /\ ~state.lockRequested /\ OPieceAtSpawn) =>
       /\ ret = JsNumber(0)
       /\ \A x \in FieldXs, y \in FieldYs :
            Locked(grid, x, y) <=> (x \in 3..4 /\ y \in 18..19)

\* C36 witness: the O piece spawned on an empty board was soft-dropped until
\* a SoftDrop changed nothing.
C36_Witness ==
  /\ op.name = "SoftDrop" /\ state = pre
  /\ OPieceAtSpawn
  /\ op.run = BOARD_HEIGHT - 2

\* C39: the scan of HardDropCommand ends for every grid, piece and starting
\* position, those above the field included, after at most BOARD_HEIGHT
\* minus the starting y iterations, and the piece is moved down by the
\* distance it reports.
C39_DropScanIsBounded ==
  op.name = "HardDrop" =>
    /\ op.dropDistance >= 0
    /\ op.dropDistance <= BOARD_HEIGHT - pre.currentPosition.y
    /\ state.currentPosition.y = pre.currentPosition.y + op.dropDistance

\* C39 witness: a piece that started above the field fell BOARD_HEIGHT rows.
C39_Witness ==
  /\ op.name = "HardDrop"
  /\ pre.currentPosition.y < 0
  /\ op.dropDistance = BOARD_HEIGHT

(***************************************************************************)
(* Sequences of commands: each command is executed on the state the        *)
(* previous one returned, as InputManager.update does with the keys of a   *)
(* tick and the ticks do one after the other.                              *)
(***************************************************************************)
MaxSeqCmds == 3

\* Playing states the sequences start from: each piece as created, at the
\* spawn position and low on either side of the field
SeqStates ==
  { PlayingState(b, createTetromino(type), position) :
      b \in {createEmptyGrid, JaggedBoard}, type \in TetrominoType,
      position \in {SpawnPosition, [x |-> 0, y |-> BOARD_HEIGHT - 6],
                    [x |-> 6, y |-> BOARD_HEIGHT - 6]} }

InitSeq ==
  /\ state \in SeqStates
  /\ canPlacePiece(state.board, state.currentPiece, state.currentPosition)
  /\ pre = state
  /\ op = NoOp
  /\ steps = 0
  /\ now = 0 /\ bag = <<>> /\ nlocks = 0 /\ grid = <<>> /\ arg = <<>>
  /\ ret = JsUndefined

\* state = command.execute(state)
SeqStep(result) ==
  /\ steps < MaxSeqCmds
  /\ state' = result
  /\ pre' = state
  /\ steps' = steps + 1
  /\ UNCHANGED <<now, bag, nlocks, grid, arg, ret>>

SMove ==
  \E d \in MoveDeltas :
    /\ op' = [name |-> "Move", dx |-> d[1], dy |-> d[2]]
    /\ SeqStep(MoveCommand(d[1], d[2], state, now))

SRotate ==
  \E direction \in RotationDirection :
    /\ op' = [name |-> "Rotate", direction |-> direction]
    /\ SeqStep(RotateCommand(direction, state, now))

SSoftDrop ==
  /\ op' = [name |-> "SoftDrop"]
  /\ SeqStep(SoftDropCommand(state, now))

SHardDrop ==
  /\ op' = [name |-> "HardDrop"]
  /\ SeqStep(HardDropCommand(state, now))

NextSeq ==
  \/ SMove
  \/ SRotate
  \/ SSoftDrop
  \/ SHardDrop

SpecSeq == InitSeq /\ [][NextSeq]_vars

\* C35: after any sequence of Move, Rotate, SoftDrop and HardDrop commands
\* from a playing state whose piece is placeable, the piece is placeable
\* where it is: all its cells are within the walls, above the floor and on
\* no locked cell.
C35_CommandsKeepPiecePlaceable ==
  /\ state.gameStatus = "playing" /\ state.currentPiece # NoPiece
  /\ Placeable(state.board, state.currentPiece, state.currentPosition)

\* C35 witness: the last of three commands is a rotation that changed piece
\* and position, made after a hard drop on the board with the overhang.
C35_Witness ==
  /\ steps = 3
  /\ op.name = "Rotate"
  /\ state.currentPiece # pre.currentPiece
  /\ state.currentPosition # pre.currentPosition
  /\ state.lockRequested
  /\ state.board = JaggedBoard

\* C34: whenever update hands a piece to the locking step, on a lock request
\* or because gravity is due, the piece cannot descend one more row, whatever
\* commands were executed since the HardDrop that made the request.
C34_LockedPieceCannotFall ==
  (/\ op.name = "update"
   /\ pre.gameStatus = "playing" /\ pre.currentPiece # NoPiece
   /\ \/ pre.lockRequested
      \/ op.due /\ state.currentPosition = pre.currentPosition)
    => ~Placeable(pre.board, pre.currentPiece,
                  [x |-> pre.currentPosition.x, y |-> pre.currentPosition.y + 1])

\* C37: the pieces installed by the spawns of a game are the pieces the
\* generator dispensed, in order and from its first piece on: the piece the
\* first startGame installs is the first piece dispensed, which the
\* constructor put into nextPiece.
C37_FirstDispensedIsFirstInstalled ==
  (/\ op.name = "keydown" /\ op.key = " "
   /\ pre.gameStatus = "idle" /\ state.gameStatus = "playing")
    => state.currentPiece = pre.nextPiece

(***************************************************************************)
(* GameLoop.  In SpecLoop, state holds the fields of the loop and the      *)
(* browser's animation frames: frames is the set of the ids requested and  *)
(* neither fired nor cancelled, nextId the id the next request returns;    *)
(* ret is the list of the callbacks the last call invoked, each with the   *)
(* isRunning and paused it was invoked under.  A call and a frame callback *)
(* run to their end before the next one starts.                            *)
(***************************************************************************)
MaxLoopOps == 6
MaxUpdatesPerFrame == 2

\* animationFrameId = null
NoFrame == 0

\* new GameLoop() in a page without frames requested
newGameLoop ==
  [isRunning |-> FALSE, paused |-> FALSE, animationFrameId |-> NoFrame,
   escapeListenerAttached |-> FALSE, frames |-> {}, nextId |-> 1, calls |-> <<>>]

\* A callback invoked, and the flags of the loop at that moment
invoke(w, name) ==
  [w EXCEPT !.calls = Append(@, [name |-> name, isRunning |-> w.isRunning,
                                 paused |-> w.paused])]

\* The while loop of tick: one update callback per fixed step accumulated
RECURSIVE fixedUpdates(_, _)
fixedUpdates(w, n) == IF n = 0 THEN w ELSE fixedUpdates(invoke(w, "update"), n - 1)

\* this.animationFrameId = requestAnimationFrame(...)
requestFrame(w) ==
  [w EXCEPT !.frames = @ \cup {w.nextId}, !.animationFrameId = w.nextId,
            !.nextId = @ + 1]

\* cancelAnimationFrame(this.animationFrameId) when it is not null
cancelFrame(w) ==
  IF w.animationFrameId # NoFrame
    THEN [w EXCEPT !.frames = @ \ {w.animationFrameId}, !.animationFrameId = NoFrame]
    ELSE w

\* tick(currentTime); n: the fixed steps the elapsed time accumulates to
GameLoop_tick(w, n) ==
  IF ~w.isRunning \/ w.paused THEN w
  ELSE requestFrame(invoke(fixedUpdates(w, n), "render"))

GameLoop_start(w) ==
  IF w.isRunning THEN w
  ELSE GameLoop_tick([w EXCEPT !.isRunning = TRUE, !.paused = FALSE,
                               !.escapeListenerAttached = TRUE], 0)

\* stop leaving the paused flag as it is
GameLoop_stop_keepsPaused(w) ==
  [cancelFrame([w EXCEPT !.isRunning = FALSE])
     EXCEPT !.escapeListenerAttached = FALSE]

GameLoop_stop(w) ==
  [cancelFrame([w EXCEPT !.isRunning = FALSE])
     EXCEPT !.paused = FALSE, !.escapeListenerAttached = FALSE]

\* pause leaving the scheduled frame in place
GameLoop_pause_keepsFrame(w) ==
  IF ~w.isRunning \/ w.paused THEN w
  ELSE [w EXCEPT !.paused = TRUE]

GameLoop_pause(w) ==
  IF ~w.isRunning \/ w.paused THEN w
  ELSE cancelFrame([w EXCEPT !.paused = TRUE])

\* resume: lastTime is set to the current time, so its tick accumulates nothing
GameLoop_resume(w) ==
  IF ~w.isRunning \/ ~w.paused THEN w
  ELSE GameLoop_tick([w EXCEPT !.paused = FALSE, !.escapeListenerAttached = TRUE], 0)

GameLoop_togglePause(w) ==
  IF ~w.isRunning THEN w
  ELSE IF w.paused THEN GameLoop_resume(w) ELSE GameLoop_pause(w)

InitLoop ==
  /\ state = newGameLoop
  /\ pre = state
  /\ op = NoOp
  /\ ret = <<>>
  /\ steps = 0
  /\ now = 0 /\ bag = <<>> /\ nlocks = 0 /\ grid = <<>> /\ arg = <<>>

\* One call or frame callback: the callbacks it invoked are kept in ret
LoopStep(name, w) ==
  /\ steps < MaxLoopOps
  /\ op' = [name |-> name]
  /\ state' = [w EXCEPT !.calls = <<>>]
  /\ ret' = w.calls
  /\ pre' = state
  /\ steps' = steps + 1
  /\ UNCHANGED <<now, bag, nlocks, grid, arg>>

LStart == LoopStep("start", GameLoop_start(state))
LStop == LoopStep("stop", GameLoop_stop(state))
LPause == LoopStep("pause", GameLoop_pause(state))
LResume == LoopStep("resume", GameLoop_resume(state))
LTogglePause == LoopStep("togglePause", GameLoop_togglePause(state))

\* The keydown listener of the loop, while attached, on the Escape key
LEscapeKey ==
  /\ state.escapeListenerAttached
  /\ LoopStep("Escape", GameLoop_togglePause(state))

\* The browser fires a requested frame: its callback runs tick
LFrame ==
  \E id \in state.frames, n \in 0..MaxUpdatesPerFrame :
    LoopStep("frame", GameLoop_tick([state EXCEPT !.frames = @ \ {id}], n))

NextLoop ==
  \/ LStart
  \/ LStop
  \/ LPause
  \/ LResume
  \/ LTogglePause
  \/ LEscapeKey
  \/ LFrame

SpecLoop == InitLoop /\ [][NextLoop]_vars

\* The loop and the frames are as before the call.
LoopUnchanged == state = pre

\* The call scheduled one frame, which the loop holds
FrameScheduled ==
  /\ state.animationFrameId \in state.frames
  /\ state.animationFrameId \notin pre.frames

\* The frame the loop held before the call is not outstanding
FrameCancelled ==
  /\ pre.animationFrameId \notin state.frames
  /\ state.animationFrameId = NoFrame

\* C33: the loop is not running at first; start makes it running and
\* schedules a frame and does nothing when it runs already; stop cancels the
\* frame and clears isRunning and paused; pause acts only on a running loop
\* that is not paused and cancels the frame; resume acts only on a running,
\* paused loop; togglePause switches between the two; paused implies running.
C33_LoopLifecycle ==
  /\ op.name = "new" => ~state.isRunning /\ ~state.paused
  /\ op.name = "start" =>
       IF pre.isRunning THEN LoopUnchanged
       ELSE state.isRunning /\ ~state.paused /\ FrameScheduled
  /\ op.name = "stop" => ~state.isRunning /\ ~state.paused /\ FrameCancelled
  /\ op.name = "pause" =>
       IF pre.isRunning /\ ~pre.paused
         THEN state.isRunning /\ state.paused /\ FrameCancelled
         ELSE LoopUnchanged
  /\ op.name = "resume" =>
       IF pre.isRunning /\ pre.paused
         THEN state.isRunning /\ ~state.paused /\ FrameScheduled
         ELSE LoopUnchanged
  /\ op.name = "togglePause" =>
       IF pre.isRunning
         THEN state.isRunning /\ state.paused = ~pre.paused
         ELSE LoopUnchanged
  /\ state.paused => state.isRunning

\* C33 witness: togglePause resumed a loop that an earlier togglePause had
\* paused.
C33_Witness ==
  /\ op.name = "togglePause"
  /\ pre.isRunning /\ pre.paused
  /\ state.isRunning /\ ~state.paused
  /\ FrameScheduled
  /\ state.nextId >= 3

\* C40: at most one frame is outstanding at any time, none while the loop is
\* stopped or paused, and every update and render callback is invoked with
\* the loop running and not paused.
C40_AtMostOneFrameOutstanding ==
  /\ Cardinality(state.frames) <= 1
  /\ (~state.isRunning \/ state.paused) => state.frames = {}
  /\ \A i \in 1..Len(ret) : ret[i].isRunning /\ ~ret[i].paused

\* C40 witness: a frame fired on a loop that had been paused and resumed,
\* ran two updates and a render and left one frame outstanding.
C40_Witness ==
  /\ op.name = "frame"
  /\ Len(ret) = 3
  /\ Cardinality(state.frames) = 1
  /\ state.nextId >= 4

(***************************************************************************)
(* Pieces stacked on an empty Board: lockPiece at placeable positions      *)
(* inside the field, interleaved with clearLines.  In SpecStack, grid is   *)
(* the Board's grid, nlocks the number of pieces locked, arg.rowsCleared   *)
(* the sum of the counts clearLines returned.                              *)
(***************************************************************************)
MaxStackOps == 4

\* The pieces stacked and the rows their top-left corner is put in: the flat
\* I and the O, within the bottom three rows
StackPieces == {createTetromino("I"), createTetromino("O")}
StackYs == (BOARD_HEIGHT - 3)..(BOARD_HEIGHT - 2)

InitStack ==
  /\ grid = createEmptyGrid
  /\ nlocks = 0
  /\ arg = [rowsCleared |-> 0]
  /\ op = NoOp
  /\ pre = grid
  /\ ret = JsUndefined
  /\ steps = 0
  /\ state = NoState /\ now = 0 /\ bag = <<>>

\* board.lockPiece(piece, position) where canPlacePiece accepts the position
\* and no cell of the piece is above the field
KLockPiece ==
  /\ steps < MaxStackOps
  /\ \E piece \in StackPieces, x \in FieldXs, y \in StackYs :
       LET position == [x |-> x, y |-> y]
       IN  /\ canPlacePiece(grid, piece, position)
           /\ grid' = lockPiece(grid, piece, position)
           /\ op' = [name |-> "lockPiece", piece |-> piece, position |-> position]
  /\ nlocks' = nlocks + 1
  /\ pre' = grid
  /\ ret' = JsUndefined
  /\ steps' = steps + 1
  /\ UNCHANGED <<arg, state, now, bag>>

\* board.clearLines()
KClearLines ==
  /\ steps < MaxStackOps
  /\ LET r == clearLines(grid)
     IN  /\ grid' = r.grid
         /\ ret' = JsNumber(r.linesCleared)
         /\ arg' = [rowsCleared |-> arg.rowsCleared + r.linesCleared]
  /\ op' = [name |-> "clearLines"]
  /\ pre' = grid
  /\ steps' = steps + 1
  /\ UNCHANGED <<nlocks, state, now, bag>>

NextStack == KLockPiece \/ KClearLines

SpecStack == InitStack /\ [][NextStack]_vars

\* C38: the number of locked cells is 4 times the number of pieces locked
\* minus BOARD_WIDTH times the number of rows cleared; every catalog shape has
\* 4 occupied sub-cells, and a lock at a placeable position changes only
\* cells that were empty.
C38_LockedCellsAreCounted ==
  /\ LockedCount(grid) = 4 * nlocks - BOARD_WIDTH * arg.rowsCleared
  /\ \A piece \in CatalogPieces : Cardinality(OccupiedSubCells(piece.shape)) = 4
  /\ op.name = "lockPiece" =>
       \A x \in FieldXs, y \in FieldYs :
         Locked(pre, x, y) => grid[y + 1][x + 1] = pre[y + 1][x + 1]

\* C38 witness: three pieces were locked and clearLines then cleared the one
\* row they completed, leaving two cells.
C38_Witness ==
  /\ op.name = "clearLines"
  /\ nlocks = 3
  /\ arg.rowsCleared = 1
  /\ LockedCount(grid) = 2

====
